---------------------------- MODULE Spec2Model ----------------------------
(***************************************************************************)
(* ws13: one WebSocket endpoint (createWebSocket of the core) as a state   *)
(* machine.  The endpoint's own fields keep the names they have in the     *)
(* source; its socket, its timers, the peer and the application are the    *)
(* environment.  Every handler of the source is an operator from a state   *)
(* record to a state record; an action applies one handler and then runs   *)
(* the microtasks the handler queued (Promise.resolve(1).then(...)), as    *)
(* the JavaScript event loop does before the next event is dispatched.     *)
(***************************************************************************)
EXTENDS Integers, Sequences, FiniteSets, TLC

VARIABLES
    isClient,             \* role of this endpoint
    readyState,           \* 0 CONNECTING, 1 OPEN, 2 CLOSING, 3 CLOSED
    wasClean,
    heartbeatInterval_ms,
    pingStartTime,        \* 0, or the (non-zero) time the last Ping was sent
    latency_ms,
    inChunks,             \* queue of received socket chunks
    inChunk,              \* <<>> (null) or <<buffer>>
    inOffset,
    inFrame,              \* <<>> (null) or <<frame>>
    inFrames,             \* frames of the message being reassembled
    outBuffer,            \* bytes staged for the socket
    wsEnd,                \* ws.end: <<>> (undefined) or <<end closure>>
    timers,               \* pending setTimeout callbacks, in creation order; each
                          \* names the slot (heartbeatTimeout, close.timeout) that
                          \* still holds its id, if any
    socket,               \* the net.Socket as this endpoint sees it
    handshake,            \* "pending", "done": the opening handshake's callback
    events,               \* every event emitted on ws, in order
    wire,                 \* bytes the peer has sent and the socket has not delivered
    peerFrames,           \* every frame the peer has sent (history)
    handled,              \* every frame that reached handling() (history)
    calls,                \* what the application and the peer did (history)
    ext,                  \* the permessage-deflate extension and its zlib streams
    reconnectState,       \* reconnectState and the reconnect options
    registry,             \* a createRegistry() object and the connections around it
    upgrade,              \* the headers of the opening handshake and its outcome
    mode                  \* which specification's environment is running

vars == <<isClient, readyState, wasClean, heartbeatInterval_ms, pingStartTime,
          latency_ms, inChunks, inChunk, inOffset, inFrame, inFrames, outBuffer,
          wsEnd, timers, socket, handshake, events, wire, peerFrames, handled,
          calls, ext, reconnectState, registry, upgrade, mode>>

-----------------------------------------------------------------------------
(* Bounds of the model                                                     *)

\* longest payload of a frame the peer sends
MaxPayload == 2
\* number of frames the peer sends in one behaviour
MaxFrames == 3
\* number of application calls (close, send) in one behaviour
MaxCalls == 1

\* how many frames the peer sends in Spec
MaxReceive == 1

-----------------------------------------------------------------------------
(* Program constants                                                       *)

CONNECTING == 0
OPEN == 1
CLOSING == 2
CLOSED == 3

-----------------------------------------------------------------------------
(* Bytes and buffers.  A Buffer is a sequence of bytes; JavaScript indexes *)
(* it from 0.                                                              *)

Min(a, b) == IF a < b THEN a ELSE b

\* buf[i] of a Buffer
At(buf, i) == buf[i + 1]

\* buf.subarray(start, end), for 0 <= start and an end that may exceed the length
subarray(buf, start, end) == SubSeq(buf, start + 1, Min(end, Len(buf)))

RECURSIVE BitXor(_, _, _)
\* a ^ b on the n low bits
BitXor(a, b, n) ==
    IF n = 0 THEN 0
    ELSE ((a + b) % 2) + 2 * BitXor(a \div 2, b \div 2, n - 1)

\* a ^ b on bytes
Xor(a, b) == BitXor(a, b, 8)

\* buf.readUInt16BE(off)
readUInt16BE(buf, off) == At(buf, off) * 256 + At(buf, off + 1)

RECURSIVE readUIntBE(_, _, _)
\* the big-endian unsigned integer of n bytes at off (readBigUInt64BE for n = 8)
readUIntBE(buf, off, n) ==
    IF n = 0 THEN 0
    ELSE readUIntBE(buf, off, n - 1) * 256 + At(buf, off + n - 1)

\* the 2 bytes buf.writeUInt16BE(v) writes
writeUInt16BE(v) == <<(v \div 256) % 256, v % 256>>

RECURSIVE writeUIntBE(_, _)
\* the n bytes of v, big-endian (writeBigUInt64BE for n = 8)
writeUIntBE(v, n) ==
    IF n = 0 THEN <<>>
    ELSE Append(writeUIntBE(v \div 256, n - 1), v % 256)

\* payload[i] ^= maskingKey[i & 3] for every i below n
MaskBytes(payload, maskingKey, n) ==
    [i \in 1..Len(payload) |->
        IF i <= n THEN Xor(payload[i], maskingKey[((i - 1) % 4) + 1])
        ELSE payload[i]]

\* the number of leading bytes of buf that are below 128: each is a code
\* point of its own in UTF-8
AsciiRun(buf) ==
    CHOOSE n \in 0..Len(buf) :
        /\ \A i \in 1..n : buf[i] < 128
        /\ n < Len(buf) => buf[n + 1] >= 128

RECURSIVE Utf8Decode(_)
\* buf.toString('utf8'): the code points of a buffer.  One- and two-byte
\* sequences are decoded; any other byte becomes U+FFFD, as Node does.
Utf8Decode(buf) ==
    IF Len(buf) = 0 THEN <<>>
    ELSE IF buf[1] < 128
         THEN SubSeq(buf, 1, AsciiRun(buf))
              \o Utf8Decode(SubSeq(buf, AsciiRun(buf) + 1, Len(buf)))
    ELSE IF /\ buf[1] >= 194 /\ buf[1] < 224 /\ Len(buf) >= 2
            /\ buf[2] >= 128 /\ buf[2] < 192
         THEN <<(buf[1] - 192) * 64 + (buf[2] - 128)>> \o Utf8Decode(Tail(Tail(buf)))
    ELSE <<65533>> \o Utf8Decode(Tail(buf))

RECURSIVE Utf8Encode(_)
\* Buffer.from(str, 'utf8') for a string of code points below 2048
Utf8Encode(str) ==
    IF Len(str) = 0 THEN <<>>
    ELSE IF str[1] < 128
         THEN SubSeq(str, 1, AsciiRun(str))
              \o Utf8Encode(SubSeq(str, AsciiRun(str) + 1, Len(str)))
    ELSE <<192 + (str[1] \div 64), 128 + (str[1] % 64)>> \o Utf8Encode(Tail(str))

RECURSIVE Concat(_)
\* Buffer.concat(list)
Concat(list) ==
    IF Len(list) = 0 THEN <<>> ELSE Head(list) \o Concat(Tail(list))


-----------------------------------------------------------------------------
(* The state record the handlers work on: the variables, the microtask     *)
(* queue of the running event-loop turn, and the bytes crypto.randomBytes  *)
(* returns in this turn.                                                   *)

St(key) ==
    [isClient |-> isClient, readyState |-> readyState, wasClean |-> wasClean,
     heartbeatInterval_ms |-> heartbeatInterval_ms,
     pingStartTime |-> pingStartTime, latency_ms |-> latency_ms,
     inChunks |-> inChunks, inChunk |-> inChunk, inOffset |-> inOffset,
     inFrame |-> inFrame, inFrames |-> inFrames, outBuffer |-> outBuffer,
     wsEnd |-> wsEnd, timers |-> timers, socket |-> socket,
     handshake |-> handshake, events |-> events, handled |-> handled,
     ext |-> ext, reconnectState |-> reconnectState,
     registry |-> registry, upgrade |-> upgrade,
     microtasks |-> <<>>, ticks |-> <<>>, threw |-> FALSE, rnd |-> key]

Commit(s) ==
    /\ isClient' = s.isClient
    /\ readyState' = s.readyState
    /\ wasClean' = s.wasClean
    /\ heartbeatInterval_ms' = s.heartbeatInterval_ms
    /\ pingStartTime' = s.pingStartTime
    /\ latency_ms' = s.latency_ms
    /\ inChunks' = s.inChunks
    /\ inChunk' = s.inChunk
    /\ inOffset' = s.inOffset
    /\ inFrame' = s.inFrame
    /\ inFrames' = s.inFrames
    /\ outBuffer' = s.outBuffer
    /\ wsEnd' = s.wsEnd
    /\ timers' = s.timers
    /\ socket' = s.socket
    /\ handshake' = s.handshake
    /\ events' = s.events
    /\ handled' = s.handled
    /\ ext' = s.ext
    /\ reconnectState' = s.reconnectState
    /\ registry' = s.registry
    /\ upgrade' = s.upgrade

\* a string (code points) or a Buffer (bytes), as close() holds its reason
Str(v) == [str |-> TRUE, v |-> v]

Buf(v) == [str |-> FALSE, v |-> v]

\* an Error object handed to close() as its reason; v is what String(err) gives
Err(v) == [str |-> FALSE, v |-> v, err |-> TRUE]

\* whether the reason close() holds is an Error object
isError(reason) == "err" \in DOMAIN reason

\* 'Error: permessage-deflate: decompressed message too large', abbreviated
ErrTooLarge == Err(<<69, 58, 76>>)

\* the Error of a zlib stream, 'Error: invalid stored block lengths' or another,
\* abbreviated
ErrZlib == Err(<<69, 58, 90>>)

\* reason.toString()
toString(reason) == IF reason.str THEN reason.v ELSE Utf8Decode(reason.v)

\* 'Connection closed abnormally (closing handshake did not occur).', abbreviated
ReasonAbnormal == Str(<<65, 98>>)

\* 'Heartbeat timeout.', abbreviated
ReasonHeartbeat == Str(<<72, 98>>)

\* 'Internal server error.', abbreviated
ReasonInternal == Str(<<73, 115>>)

-----------------------------------------------------------------------------
(* Events, timers, microtasks                                              *)

Event(s, type) ==
    [type |-> type, data |-> <<>>, isNull |-> TRUE, isBinary |-> FALSE,
     code |-> 0, reason |-> <<>>, wasClean |-> FALSE, latency_ms |-> 0,
     readyState |-> s.readyState]

\* ws.emit(type, event); the event records the readyState a listener reads
emit(s, e) == [s EXCEPT !.events = Append(@, e)]

Timer(k, slot, code, reason) == [k |-> k, slot |-> slot, code |-> code, reason |-> reason]

\* slot = setTimeout(callback): the slot's former timer, if pending, stays pending
\* but can no longer be cleared through the slot
setTimeout(s, k, slot, code, reason) ==
    [s EXCEPT !.timers =
        Append([i \in 1..Len(@) |->
                    IF slot # "none" /\ @[i].slot = slot
                    THEN [@[i] EXCEPT !.slot = "none"] ELSE @[i]],
               Timer(k, slot, code, reason))]

\* clearTimeout(slot)
clearTimeout(s, slot) ==
    [s EXCEPT !.timers = SelectSeq(@, LAMBDA t : t.slot # slot)]

Microtask(k, cbk, code, reason) == [k |-> k, cbk |-> cbk, code |-> code, reason |-> reason]

\* Promise.resolve(1).then(task)
queueMicrotask(s, m) == [s EXCEPT !.microtasks = Append(@, m)]

-----------------------------------------------------------------------------
(* The socket                                                              *)

isSocketWritable(s) == ~s.socket.destroyed /\ s.socket.writable

\* socket.write(bytes, onWritten): a socket that is not slow hands the bytes to
\* the kernel at once; a slow one keeps them in its buffer until it is flushed,
\* and needs a drain once the buffer has reached the high-water mark
socketWrite(s, bytes) ==
    IF s.socket.slow
    THEN [s EXCEPT !.socket.written = @ \o bytes,
                   !.socket.writableLength = @ + Len(bytes),
                   !.socket.writableNeedDrain =
                       s.socket.writableLength + Len(bytes) >= s.socket.writableHighWaterMark,
                   !.socket.onWritten = @ + 1]
    ELSE [s EXCEPT !.socket.written = @ \o bytes]

\* socket.end(): the writable side is finished
socketEnd(s) == [s EXCEPT !.socket.writable = FALSE, !.socket.finSent = TRUE]

socketPause(s) == [s EXCEPT !.socket.paused = TRUE]

socketResume(s) == [s EXCEPT !.socket.paused = FALSE]

\* a socket that is connected and flowing
OpenSocket ==
    [writable |-> TRUE, destroyed |-> FALSE, paused |-> FALSE, peerEnded |-> FALSE,
     finSent |-> FALSE, written |-> <<>>,
     slow |-> FALSE, writableHighWaterMark |-> 16384, writableLength |-> 0,
     writableNeedDrain |-> FALSE, drainListeners |-> 0, onWritten |-> 0]


-----------------------------------------------------------------------------
(* close.end / _end                                                        *)

\* the close event _end() builds, or the one connect hands to scheduleReconnect
CloseEvt(code, clean) == [code |-> code, wasClean |-> clean]

\* shouldReconnect(evt): the default (evt) => !evt.wasClean || evt.code !== 1000,
\* or an application's function that always answers true
shouldReconnect(s, evt) ==
    IF s.reconnectState.shouldReconnect = "default"
    THEN ~evt.wasClean \/ evt.code # 1000
    ELSE TRUE

\* scheduleReconnect(evt) without the guard on reconnectAttempts
scheduleReconnect_NoLimit(s, evt) ==
    IF ~s.reconnectState.enabled THEN s
    ELSE IF ~shouldReconnect(s, evt) THEN s
    ELSE IF s.reconnectState.requestFactory = "none" THEN s
    ELSE setTimeout(clearTimeout([s EXCEPT !.reconnectState.attempts = @ + 1],
                                 "reconnectState.timer"),
                    "reconnect", "reconnectState.timer", 0, Str(<<>>))

\* scheduleReconnect(evt); the timers of the model carry no delay
scheduleReconnect(s, evt) ==
    IF ~s.reconnectState.enabled THEN s
    ELSE IF ~shouldReconnect(s, evt) THEN s
    ELSE IF s.reconnectState.requestFactory = "none" THEN s
    ELSE IF /\ s.reconnectState.reconnectAttempts > 0
            /\ s.reconnectState.attempts >= s.reconnectState.reconnectAttempts
         THEN s
    ELSE setTimeout(clearTimeout([s EXCEPT !.reconnectState.attempts = @ + 1],
                                 "reconnectState.timer"),
                    "reconnect", "reconnectState.timer", 0, Str(<<>>))

\* _end(), reached from end() through extension.close's callback
end(s, code, reason) ==
    LET s1 == socketEnd(s)
        evt == [Event(s1, "close") EXCEPT !.code = code,
                                          !.reason = toString(reason),
                                          !.wasClean = s1.wasClean]
        s2 == scheduleReconnect(emit(s1, evt), CloseEvt(code, s1.wasClean))
    IN  [s2 EXCEPT !.inChunks = <<>>, !.inChunk = <<>>,
                   !.inFrames = <<>>, !.inFrame = <<>>]

-----------------------------------------------------------------------------
(* sendFrames                                                              *)

\* header(): the bytes before the payload (writtenBytes is 0: one frame per call)
header(f) ==
    LET firstByte == f.opcode
                     + (IF f.isRsv1 THEN 64 ELSE 0)
                     + (IF f.isRsv2 THEN 32 ELSE 0)
                     + (IF f.isRsv3 THEN 16 ELSE 0)
                     + (IF f.isFin THEN 128 ELSE 0)
        maskBit == IF Len(f.maskingKey) > 0 THEN 128 ELSE 0
        n == Len(f.payload)
        len == IF n >= 65536 THEN <<maskBit + 127>> \o writeUIntBE(n, 8)
               ELSE IF n > 125 THEN <<maskBit + 126>> \o writeUInt16BE(n)
               ELSE <<maskBit + n>>
    IN  <<firstByte>> \o len \o f.maskingKey

\* the close callbacks of a client without the 10-second watchdog
callback_NoWatchdog(s, cbk, code, reason) ==
    CASE cbk = "ping" ->
            [s EXCEPT !.pingStartTime = 1]
      [] cbk = "closeOpen" ->
            LET s1 == [s EXCEPT !.wasClean = TRUE]
            IN  IF s1.isClient
                THEN [s1 EXCEPT !.wsEnd = <<[code |-> code, reason |-> reason]>>]
                ELSE queueMicrotask(s1, Microtask("end", "none", code, reason))
      [] cbk = "closeClosing" ->
            IF s.isClient
            THEN [s EXCEPT !.wsEnd = <<[code |-> code, reason |-> reason]>>]
            ELSE queueMicrotask(s, Microtask("end", "none", code, reason))
      [] OTHER -> s

\* the callback sendFrames was given, called by doneCallback
callback(s, cbk, code, reason) ==
    CASE cbk = "ping" ->
            [s EXCEPT !.pingStartTime = 1]
      [] cbk = "closeOpen" ->
            LET s1 == [s EXCEPT !.wasClean = TRUE]
            IN  IF s1.isClient
                THEN setTimeout([s1 EXCEPT !.wsEnd = <<[code |-> code, reason |-> reason]>>],
                                "end", "close.timeout", code, reason)
                ELSE queueMicrotask(s1, Microtask("end", "none", code, reason))
      [] cbk = "closeClosing" ->
            IF s.isClient
            THEN setTimeout([s EXCEPT !.wsEnd = <<[code |-> code, reason |-> reason]>>],
                            "end", "close.timeout", code, reason)
            ELSE queueMicrotask(s, Microtask("end", "none", code, reason))
      [] OTHER -> s

\* masking(): a client frame that has no key yet gets crypto.randomBytes(4); the
\* payload of a frame with a key is XOR-ed in place
masking(s, f) ==
    LET key == IF f.isMasked /\ Len(f.maskingKey) = 0 THEN s.rnd ELSE f.maskingKey
    IN  IF Len(key) = 0 THEN f
        ELSE [f EXCEPT !.maskingKey = key,
                       !.payload = MaskBytes(f.payload, key, Len(f.payload))]

\* writeFrame(): stage header and payload, queue writeToSocket, call back
writeFrame(s, f, cbk, code, reason) ==
    LET s1 == [s EXCEPT !.outBuffer = @ \o header(f) \o f.payload]
        s2 == queueMicrotask(s1, Microtask("writeToSocket", cbk, code, reason))
    IN  callback(s2, cbk, code, reason)

-----------------------------------------------------------------------------
(* permessage-deflate: the message hooks of the extension.  A zlib stream  *)
(* works off the event loop; ext.zlib holds the flushes that are under way *)
(* and the actions ZlibFlushed and ZlibDeflated complete one of them.      *)

RECURSIVE Deflate(_)
\* what zlib makes of a payload, as a run-length code: (count, byte) pairs.  The
\* real DEFLATE stream is abstracted to a coding that changes every payload and
\* that Inflate undoes.
Deflate(p) ==
    IF Len(p) = 0 THEN <<>>
    ELSE LET rest == Deflate(Tail(p))
         IN  IF Len(rest) > 0 /\ rest[2] = p[1]
             THEN <<rest[1] + 1, p[1]>> \o SubSeq(rest, 3, Len(rest))
             ELSE <<1, p[1]>> \o rest

RECURSIVE Inflate(_)
\* the bytes zlib's inflate stream emits for a deflated payload
Inflate(c) ==
    IF Len(c) < 2 THEN <<>>
    ELSE [i \in 1..c[1] |-> c[2]] \o Inflate(SubSeq(c, 3, Len(c)))

\* extension = null: no extension was negotiated
NoExtension ==
    [active |-> FALSE, maxDecompressSize |-> 16777216,
     client_no_context_takeover |-> FALSE, server_no_context_takeover |-> FALSE,
     inflateQueue |-> <<>>, inflateQueue_isWorking |-> FALSE,
     deflateQueue |-> <<>>, deflateQueue_isWorking |-> FALSE,
     zlib |-> <<>>]

\* a flush of a zlib stream that is under way, or a callback given to stream.close
ZlibOp(dir, frame, useNew, cbk, code, reason) ==
    [dir |-> dir, frame |-> frame, useNew |-> useNew,
     cbk |-> cbk, code |-> code, reason |-> reason]

\* process.nextTick(callback): stream.close(cb) calls cb when the stream has
\* emitted 'close', which it does on the next tick
nextTick(s, op) == [s EXCEPT !.ticks = Append(@, op)]

\* useNewDeflate
useNewDeflate(s) ==
    \/ s.isClient /\ s.ext.client_no_context_takeover
    \/ ~s.isClient /\ s.ext.server_no_context_takeover

\* processOutgoingMessage's doneCallback(null, frame): the callback sendFrames
\* gave (masking, writeFrame), then the queue is released
deflateDone(s, op) ==
    LET s1 == writeFrame(s, masking(s, op.frame), op.cbk, op.code, op.reason)
        s2 == [s1 EXCEPT !.ext.deflateQueue_isWorking = FALSE]
    IN  queueMicrotask(s2, Microtask("deflateProcess", "none", 0, Str(<<>>)))

\* deflateProcess() starting the next message although one is being deflated
deflateProcess_NoGuard(s) ==
    IF Len(s.ext.deflateQueue) = 0 THEN s
    ELSE LET op == Head(s.ext.deflateQueue)
             s1 == [s EXCEPT !.ext.deflateQueue_isWorking = TRUE,
                             !.ext.deflateQueue = Tail(@)]
         IN  IF op.frame.payloadLength = 0
             THEN deflateDone(s1, op)
             ELSE [s1 EXCEPT !.ext.zlib =
                     Append(@, [op EXCEPT !.frame.isRsv1 = TRUE,
                                          !.useNew = useNewDeflate(s1)])]

\* deflateProcess(): one message at a time; a message without payload is done at
\* once, any other gets RSV1 and is written to the deflate stream and flushed
deflateProcess(s) ==
    IF s.ext.deflateQueue_isWorking THEN s
    ELSE IF Len(s.ext.deflateQueue) = 0 THEN s
    ELSE LET op == Head(s.ext.deflateQueue)
             s1 == [s EXCEPT !.ext.deflateQueue_isWorking = TRUE,
                             !.ext.deflateQueue = Tail(@)]
         IN  IF op.frame.payloadLength = 0
             THEN deflateDone(s1, op)
             ELSE [s1 EXCEPT !.ext.zlib =
                     Append(@, [op EXCEPT !.frame.isRsv1 = TRUE,
                                          !.useNew = useNewDeflate(s1)])]

\* extension.processOutgoingMessage(frame, callback)
processOutgoingMessage(s, frame, cbk, code, reason) ==
    deflateProcess([s EXCEPT !.ext.deflateQueue =
                       Append(@, ZlibOp("deflate", frame, FALSE, cbk, code, reason))])

\* onFlush() of the deflate stream: the payload becomes the deflated bytes;
\* cleanup(cb) gives cb to stream.close when the stream was made for this message
\* and then calls cb itself.  The frame is one object: the callback of
\* stream.close finds it as masking() has left it.
deflateFlush(s, op) ==
    LET out == Deflate(op.frame.payload)
        frame == [op.frame EXCEPT !.payload = out, !.payloadLength = Len(out)]
        s1 == IF op.useNew
              THEN nextTick(s, [op EXCEPT !.dir = "deflateClosed",
                                          !.frame = masking(s, frame)])
              ELSE s
    IN  deflateDone(s1, [op EXCEPT !.frame = frame])

\* sendFrames({payload, opcode, isFin}, callback); a string payload is given as
\* code points
sendFrames(s, payload, isString, opcode, isFin, cbk, code, reason) ==
    IF ~isSocketWritable(s)
    THEN callback(s, cbk, code, reason)
    ELSE LET bytes == IF isString THEN Utf8Encode(payload) ELSE payload
             outFrame ==
                [isFin |-> isFin, isRsv1 |-> FALSE, isRsv2 |-> FALSE, isRsv3 |-> FALSE,
                 isMasked |-> s.isClient,
                 opcode |-> IF isString /\ opcode = 2 THEN 1 ELSE opcode,
                 maskingKey |-> <<>>,
                 payload |-> bytes, payloadLength |-> Len(bytes)]
         IN  IF outFrame.opcode < 3 /\ s.ext.active
             THEN processOutgoingMessage(s, outFrame, cbk, code, reason)
             ELSE writeFrame(s, masking(s, outFrame), cbk, code, reason)

\* write() that leaves the bytes it has written in outBuffer
write_NoAdvance(s) ==
    LET availableLength == s.socket.writableHighWaterMark - s.socket.writableLength
        writingLength == Min(availableLength, Len(s.outBuffer))
    IN  socketWrite(s, subarray(s.outBuffer, 0, writingLength))

\* writeToSocket.write(): as many bytes as the socket's buffer has room for
write(s) ==
    LET availableLength == s.socket.writableHighWaterMark - s.socket.writableLength
        writingLength == Min(availableLength, Len(s.outBuffer))
    IN  [socketWrite(s, subarray(s.outBuffer, 0, writingLength))
            EXCEPT !.outBuffer = subarray(s.outBuffer, writingLength, Len(s.outBuffer))]

\* writeToSocket(), as the microtask writeFrame queued
writeToSocket(s, cbk, code, reason) ==
    IF Len(s.outBuffer) = 0 THEN s
    ELSE IF ~isSocketWritable(s) THEN callback(s, cbk, code, reason)
    ELSE IF s.socket.writableNeedDrain
         THEN [s EXCEPT !.socket.drainListeners = @ + 1]
    ELSE write(s)

RECURSIVE drain(_, _)
\* the socket emits 'drain': the n listeners socket.once('drain', write) run
drain(s, n) ==
    IF n = 0 THEN s ELSE drain(write(s), n - 1)

RECURSIVE onWritten(_, _)
\* the callbacks of n writes that have been flushed
onWritten(s, n) ==
    IF n = 0 THEN s
    ELSE onWritten(IF Len(s.outBuffer) > 0
                   THEN writeToSocket(s, "none", 0, Str(<<>>))
                   ELSE s,
                   n - 1)

\* sendData(payload)
sendData(s, payload, isString) ==
    sendFrames(s, payload, isString, 2, TRUE, "none", 0, Str(<<>>))

\* sendPing(payload = '')
sendPing(s) ==
    IF isSocketWritable(s)
    THEN sendFrames(s, <<>>, TRUE, 9, TRUE, "ping", 0, Str(<<>>))
    ELSE s

\* sendPong(payload)
sendPong(s, payload) ==
    IF isSocketWritable(s)
    THEN sendFrames(s, subarray(payload, 0, 125), FALSE, 10, TRUE, "none", 0, Str(<<>>))
    ELSE s

-----------------------------------------------------------------------------
(* close                                                                   *)

\* sendClosingHandshake(cb)
sendClosingHandshake(s, code, reason, cbk) ==
    IF isSocketWritable(s)
    THEN LET bytes == IF reason.str THEN Utf8Encode(reason.v) ELSE reason.v
             reasonBuf == subarray(bytes, 0, 125)
         IN  sendFrames(s, writeUInt16BE(code) \o reasonBuf, FALSE, 8, TRUE,
                        cbk, code, Buf(reasonBuf))
    ELSE end([s EXCEPT !.wasClean = FALSE], code, reason)

\* Buffer.from(reason, 'utf8') in sendClosingHandshake throws a TypeError when
\* reason is neither a string nor a Buffer nor array-like
closeThrows(s, reason) ==
    /\ s.readyState \in {OPEN, CLOSING}
    /\ isSocketWritable(s)
    /\ isError(reason)

\* close(code = 1000, reason = ''); what the executor of its promise throws
\* rejects the promise, and the state stays as the throw has left it
close(s, code, reason) ==
    LET s1 == clearTimeout(s, "heartbeatTimeout")
        s2 == IF code = 1001 THEN [s1 EXCEPT !.readyState = CLOSED] ELSE s1
    IN  IF closeThrows(s2, reason) THEN s2 ELSE
        CASE s2.readyState = OPEN ->
                [sendClosingHandshake(s2, code, reason, "closeOpen")
                    EXCEPT !.readyState = CLOSED]
          [] s2.readyState = CLOSING ->
                sendClosingHandshake(s2, code, reason, "closeClosing")
          [] s2.readyState = CLOSED ->
                end(clearTimeout(s2, "close.timeout"), code, reason)
          [] OTHER ->
                end(clearTimeout(s2, "close.timeout"), 1006, ReasonAbnormal)

\* processOutgoingMessage's doneCallback(error, null): the callback sendFrames
\* gave emits 'error', calls ws.close(1011, err) and rejects the promise of
\* sendFrames through its doneCallback(err); then the queue is released
deflateFailed(s, op) ==
    LET s1 == close(emit(s, Event(s, "error")), 1011, ErrZlib)
        s2 == callback(s1, op.cbk, op.code, op.reason)
        s3 == [s2 EXCEPT !.ext.deflateQueue_isWorking = FALSE]
    IN  queueMicrotask(s3, Microtask("deflateProcess", "none", 0, Str(<<>>)))

\* onError(error) of the deflate stream: cleanup(cb) as in onFlush
deflateError(s, op) ==
    deflateFailed(IF op.useNew
                  THEN nextTick(s, [op EXCEPT !.dir = "deflateFailed"])
                  ELSE s,
                  op)


-----------------------------------------------------------------------------
(* heartbeat                                                               *)

\* heartbeat() leaving the pending timer of heartbeatTimeout armed
heartbeat_NoClear(s) ==
    IF s.heartbeatInterval_ms > 0
    THEN setTimeout(s, "check", "heartbeatTimeout", 0, Str(<<>>))
    ELSE s

\* heartbeat() without a callback: re-arm the interval timer
heartbeat(s) ==
    LET s1 == clearTimeout(s, "heartbeatTimeout")
    IN  IF s1.heartbeatInterval_ms > 0
        THEN setTimeout(s1, "check", "heartbeatTimeout", 0, Str(<<>>))
        ELSE s1

\* heartbeat.check(): send a Ping and arm the heartbeat timeout
check(s) ==
    IF ~isSocketWritable(s)
    THEN setTimeout(s, "check", "none", 0, Str(<<>>))
    ELSE setTimeout(sendPing(clearTimeout(s, "heartbeatTimeout")),
                    "heartbeatTimeout", "heartbeatTimeout", 1006, ReasonHeartbeat)

-----------------------------------------------------------------------------
(* readInput: the reader                                                   *)

\* calcResidue()
calcResidue(s) ==
    [s EXCEPT !.inChunk = IF s.inOffset < Len(s.inChunk[1])
                          THEN <<subarray(s.inChunk[1], s.inOffset, Len(s.inChunk[1]))>>
                          ELSE <<>>,
              !.inOffset = 0]

\* unmask(frame, cb) up to the call of cb
unmask(s) ==
    LET f == s.inFrame[1]
    IN  IF Len(f.payload) < f.payloadLength \/ ~f.isMasked THEN s
        ELSE [s EXCEPT !.inFrame =
                <<[f EXCEPT !.payload = MaskBytes(f.payload, f.maskingKey, f.payloadLength)]>>]

\* readFrame(callback): called tells whether callback was called
readFrame(s) ==
    IF Len(s.inFrame) > 0
    THEN LET f == s.inFrame[1]
             chunk == s.inChunk[1]
         IN  IF Len(f.payload) < f.payloadLength
             THEN LET contBuf == subarray(chunk, 0, f.payloadLength - Len(f.payload))
                      s1 == [s EXCEPT !.inFrame = <<[f EXCEPT !.payload = @ \o contBuf]>>,
                                      !.inOffset = Len(contBuf)]
                  IN  [s |-> unmask(calcResidue(s1)), called |-> TRUE]
             ELSE [s |-> unmask(s), called |-> TRUE]
    ELSE LET chunk == s.inChunk[1]
             b0 == At(chunk, 0)
             b1 == At(chunk, 1)
             isMasked == b1 >= 128
             len7 == b1 % 128
             lenBytes == IF len7 = 126 THEN 2 ELSE IF len7 = 127 THEN 8 ELSE 0
             off1 == s.inOffset + 2
             off2 == off1 + lenBytes
             off3 == off2 + (IF isMasked THEN 4 ELSE 0)
             short == [s |-> [s EXCEPT !.inOffset = 0], called |-> FALSE]
         IN  IF lenBytes > 0 /\ Len(chunk) - off1 < lenBytes THEN short
             ELSE IF isMasked /\ Len(chunk) - off2 < 4 THEN short
             ELSE LET payloadLength == IF lenBytes = 0 THEN len7
                                       ELSE readUIntBE(chunk, off1, lenBytes)
                      payload == subarray(chunk, off3, off3 + payloadLength)
                      frame == [isFin |-> b0 >= 128,
                                isRsv1 |-> (b0 \div 64) % 2 = 1,
                                isRsv2 |-> (b0 \div 32) % 2 = 1,
                                isRsv3 |-> (b0 \div 16) % 2 = 1,
                                opcode |-> b0 % 16,
                                isMasked |-> isMasked,
                                payloadLength |-> payloadLength,
                                maskingKey |-> IF isMasked THEN subarray(chunk, off2, off2 + 4)
                                               ELSE <<>>,
                                payload |-> payload]
                      s1 == calcResidue([s EXCEPT !.inOffset = off3 + Len(payload)])
                  IN  [s |-> unmask([s1 EXCEPT !.inFrame = <<frame>>]), called |-> TRUE]

-----------------------------------------------------------------------------
(* permessage-deflate: incoming messages                                   *)

\* useNewInflate
useNewInflate(s) ==
    \/ ~s.isClient /\ s.ext.client_no_context_takeover
    \/ s.isClient /\ s.ext.server_no_context_takeover

\* processIncomingMessage's doneCallback(null, frame): calaMessage's callback and
\* pushData's cb emit the message, then the queue is released
inflateDone(s, frame) ==
    LET s1 == emit(s, [Event(s, "message") EXCEPT
                          !.data = IF frame.opcode = 1 THEN Utf8Decode(frame.payload)
                                   ELSE frame.payload,
                          !.isNull = FALSE,
                          !.isBinary = frame.opcode # 1])
        s2 == [s1 EXCEPT !.ext.inflateQueue_isWorking = FALSE]
    IN  queueMicrotask(s2, Microtask("inflateProcess", "none", 0, Str(<<>>)))

\* inflateProcess() starting the next message although one is being inflated
inflateProcess_NoGuard(s) ==
    IF Len(s.ext.inflateQueue) = 0 THEN s
    ELSE LET frame == Head(s.ext.inflateQueue)
             s1 == [s EXCEPT !.ext.inflateQueue_isWorking = TRUE,
                             !.ext.inflateQueue = Tail(@)]
         IN  IF ~frame.isRsv1 \/ frame.payloadLength = 0
             THEN inflateDone(s1, frame)
             ELSE [s1 EXCEPT !.ext.zlib =
                     Append(@, ZlibOp("inflate", frame, useNewInflate(s1),
                                      "none", 0, Str(<<>>)))]

\* inflateProcess(): one message at a time; a message without RSV1 or without
\* payload is done at once, any other is written to the inflate stream and flushed
inflateProcess(s) ==
    IF s.ext.inflateQueue_isWorking THEN s
    ELSE IF Len(s.ext.inflateQueue) = 0 THEN s
    ELSE LET frame == Head(s.ext.inflateQueue)
             s1 == [s EXCEPT !.ext.inflateQueue_isWorking = TRUE,
                             !.ext.inflateQueue = Tail(@)]
         IN  IF ~frame.isRsv1 \/ frame.payloadLength = 0
             THEN inflateDone(s1, frame)
             ELSE [s1 EXCEPT !.ext.zlib =
                     Append(@, ZlibOp("inflate", frame, useNewInflate(s1),
                                      "none", 0, Str(<<>>)))]

\* extension.processIncomingMessage(frame, callback)
processIncomingMessage(s, frame) ==
    inflateProcess([s EXCEPT !.ext.inflateQueue = Append(@, frame)])

\* whether the inflate stream emits 'error' for these bytes: the run-length code
\* is made of pairs
InflateFails(c) == Len(c) % 2 = 1

\* processIncomingMessage's doneCallback(error, null): calaMessage's callback
\* emits 'error' and calls ws.close(1011, err), then the queue is released
inflateFailed(s, err) ==
    LET s1 == close(emit(s, Event(s, "error")), 1011, err)
        s2 == [s1 EXCEPT !.ext.inflateQueue_isWorking = FALSE]
    IN  queueMicrotask(s2, Microtask("inflateProcess", "none", 0, Str(<<>>)))

\* onError(error) of the inflate stream, called by the stream or by onData when
\* the total exceeds maxDecompressSize: cleanup(cb) gives cb to stream.close
\* when the stream was made for this message and then calls cb itself
inflateError(s, op, err) ==
    inflateFailed(IF op.useNew
                  THEN nextTick(s, [op EXCEPT !.dir = "inflateFailed", !.reason = err])
                  ELSE s,
                  err)

\* onFlush() of the inflate stream: the payload becomes the inflated bytes;
\* cleanup(cb) gives cb to stream.close when the stream was made for this message
\* and then calls cb itself
inflateFlush(s, op) ==
    LET out == Inflate(op.frame.payload)
        frame == [op.frame EXCEPT !.payload = out, !.payloadLength = Len(out)]
        s1 == IF op.useNew
              THEN nextTick(s, [op EXCEPT !.dir = "inflateClosed", !.frame = frame])
              ELSE s
    IN  IF InflateFails(op.frame.payload) THEN inflateError(s, op, ErrZlib)
        ELSE IF Len(out) > s.ext.maxDecompressSize THEN inflateError(s, op, ErrTooLarge)
        ELSE inflateDone(s1, frame)

\* the frame calaMessage hands to processIncomingMessage
messageFrame(frames) ==
    LET buf == Concat([i \in 1..Len(frames) |-> frames[i].payload])
    IN  [isFin |-> TRUE, isRsv1 |-> frames[1].isRsv1, isRsv2 |-> frames[1].isRsv2,
         isRsv3 |-> frames[1].isRsv3, opcode |-> frames[1].opcode,
         isMasked |-> frames[1].isMasked, payloadLength |-> Len(buf),
         maskingKey |-> frames[1].maskingKey, payload |-> buf]

\* calaMessage deciding text or binary from the last frame instead of the first
calaMessage_LastOpcode(s, frames) ==
    IF Len(frames) = 0 THEN s
    ELSE IF s.ext.active THEN processIncomingMessage(s, messageFrame(frames))
    ELSE LET buf == Concat([i \in 1..Len(frames) |-> frames[i].payload])
             last == frames[Len(frames)]
         IN  emit(s, [Event(s, "message") EXCEPT
                        !.data = IF last.opcode = 1 THEN Utf8Decode(buf) ELSE buf,
                        !.isNull = FALSE,
                        !.isBinary = last.opcode # 1])

\* calaMessage(inFrames, cb) and its cb
calaMessage(s, frames) ==
    IF Len(frames) = 0 THEN s
    ELSE IF s.ext.active THEN processIncomingMessage(s, messageFrame(frames))
    ELSE LET buf == Concat([i \in 1..Len(frames) |-> frames[i].payload])
             isBinary == frames[1].opcode # 1
         IN  emit(s, [Event(s, "message") EXCEPT
                        !.data = IF frames[1].opcode = 1 THEN Utf8Decode(buf) ELSE buf,
                        !.isNull = FALSE,
                        !.isBinary = isBinary])

\* pushData(): the message is computed and emitted at once, not in the microtask
pushData(s) ==
    LET s1 == [s EXCEPT !.inFrames = Append(@, s.inFrame[1])]
    IN  IF s.inFrame[1].isFin
        THEN [calaMessage(s1, s1.inFrames) EXCEPT !.inFrames = <<>>]
        ELSE s1

\* handling(): dispatch on the opcode, then inFrame = null
handling(s) ==
    LET f == s.inFrame[1]
        s0 == [s EXCEPT !.handled = Append(@, f)]
        over == IF Len(f.payload) > 125 THEN close(s0, 1009, Str(<<>>)) ELSE s0
        done(x) == [x EXCEPT !.inFrame = <<>>]
    IN  CASE f.opcode \in {0, 1, 2} ->
                done(pushData(s0))
          [] f.opcode = 8 ->
                IF Len(f.payload) = 1
                THEN [s0 EXCEPT !.threw = TRUE]
                ELSE LET code == IF Len(f.payload) > 0 THEN readUInt16BE(f.payload, 0) ELSE 0
                         reason == Buf(subarray(f.payload, 2, Len(f.payload)))
                     IN  IF s0.readyState = OPEN
                         THEN done([close([s0 EXCEPT !.readyState = CLOSING], code, reason)
                                       EXCEPT !.wasClean = TRUE])
                         ELSE done(close([s0 EXCEPT !.readyState = CLOSED], code, reason))
          [] f.opcode = 9 ->
                done(queueMicrotask(sendPong(over, f.payload),
                                    Microtask("ping", "none", 0, Str(<<>>))))
          [] f.opcode = 10 ->
                LET s1 == IF over.pingStartTime # 0
                          THEN heartbeat([over EXCEPT !.latency_ms = 1, !.pingStartTime = 0])
                          ELSE over
                IN  done(queueMicrotask(s1, Microtask("pong", "none", 0, Str(<<>>))))
          [] OTHER ->
                done(emit(s0, Event(s0, "error")))

\* frameHandling(): nothing happens until the payload is complete
frameHandling(s) ==
    IF Len(s.inFrame[1].payload) < s.inFrame[1].payloadLength THEN s
    ELSE handling(s)

RECURSIVE readInput(_)
\* next(), the callback readInput gives to frameHandling: read on while bytes are
\* left, else resume the socket; s is the state handling() has left
next(s) ==
    IF s.threw THEN s
    ELSE IF Len(s.inChunk) > 0 /\ Len(s.inChunk[1]) > 0 THEN readInput(s)
    ELSE IF Len(s.inChunks) > 0 THEN readInput(s)
    ELSE socketResume(s)

\* readInput(), with next() looping back into it
readInput(s) ==
    LET s0 == socketPause(s)
        s1 == IF Len(s0.inChunk) = 0 /\ Len(s0.inChunks) > 0
              THEN [s0 EXCEPT !.inChunk = <<Head(s0.inChunks)>>,
                              !.inChunks = Tail(s0.inChunks),
                              !.inOffset = 0]
              ELSE s0
        \* Buffer.concat([inChunk, inChunks.shift()]): the result is not kept
        s2 == IF Len(s1.inChunk[1]) < 14 /\ Len(s1.inChunks) > 0
              THEN [s1 EXCEPT !.inChunks = Tail(@)]
              ELSE s1
    IN  IF Len(s0.inChunk) = 0 /\ Len(s0.inChunks) = 0 THEN socketResume(s0)
        ELSE IF Len(s2.inChunk[1]) < 2 THEN socketResume(s2)
        ELSE LET r == readFrame(s2)
             IN  IF ~r.called THEN r.s
                 ELSE next(frameHandling(r.s))

\* the catch block of incomingData; s is the state readInput has left
incomingDataCatch(s) ==
    IF s.threw
    THEN close(emit([s EXCEPT !.threw = FALSE], Event(s, "error")),
               1011, ReasonInternal)
    ELSE s

\* incomingData(buf): the socket's 'data' handler
incomingData(s, buf) ==
    incomingDataCatch(readInput([s EXCEPT !.inChunks = Append(@, buf)]))


-----------------------------------------------------------------------------
(* Microtasks: what Promise.resolve(1).then(...) queued runs after the     *)
(* handler, in order, before the event loop dispatches anything else.      *)

\* { data: inFrame?.payload || null }, read when the microtask runs
pingEvent(s, type) ==
    [Event(s, type) EXCEPT
        !.data = IF Len(s.inFrame) > 0 THEN s.inFrame[1].payload ELSE <<>>,
        !.isNull = Len(s.inFrame) = 0,
        !.latency_ms = IF type = "pong" THEN s.latency_ms ELSE 0]

\* connect(), queued by the reconnect timer: the request of requestFactory() is
\* sent on its own socket
connect(s) == [s EXCEPT !.socket = OpenSocket, !.handshake = "requested"]

runMicrotask(s, m) ==
    CASE m.k = "writeToSocket" -> writeToSocket(s, m.cbk, m.code, m.reason)
      [] m.k = "end" -> end(s, m.code, m.reason)
      [] m.k = "ping" -> emit(s, pingEvent(s, "ping"))
      [] m.k = "pong" -> emit(s, pingEvent(s, "pong"))
      [] m.k = "inflateProcess" -> inflateProcess(s)
      [] m.k = "deflateProcess" -> deflateProcess(s)
      [] m.k = "connect" -> connect(s)
      [] OTHER -> s

\* a callback of the next-tick queue
runTick(s, op) ==
    CASE op.dir = "inflateClosed" -> inflateDone(s, op.frame)
      [] op.dir = "deflateClosed" -> deflateDone(s, op)
      [] op.dir = "inflateFailed" -> inflateFailed(s, op.reason)
      [] op.dir = "deflateFailed" -> deflateFailed(s, op)
      [] OTHER -> s

RECURSIVE runMicrotasks(_)
\* the next-tick queue runs until it is empty, then the microtask queue; a
\* microtask may queue another.  The state after each callback is bound as a
\* value before the next one runs.
runMicrotasks(s) ==
    IF Len(s.ticks) > 0
    THEN CHOOSE r \in {runMicrotasks(n) :
                          n \in {runTick([s EXCEPT !.ticks = Tail(@)],
                                         Head(s.ticks))}} : TRUE
    ELSE IF Len(s.microtasks) = 0 THEN s
    ELSE CHOOSE r \in {runMicrotasks(n) :
                          n \in {runMicrotask([s EXCEPT !.microtasks = Tail(@)],
                                              Head(s.microtasks))}} : TRUE

\* one turn of the event loop: the handler's result, then its microtasks
Turn(s) ==
    \E after \in {s} : \E done \in {runMicrotasks(after)} : Commit(done)

-----------------------------------------------------------------------------
(* The environment: the peer, the socket                                   *)

\* the values crypto.randomBytes(4) may return
Keys == {<<1, 2, 3, 4>>, <<255, 0, 128, 7>>}

\* the masking key a client peer uses
PeerKey == <<5, 6, 7, 8>>

\* the payload of the k-th frame of the peer, n bytes long
PeerPayload(k, n) == [i \in 1..n |-> 97 + ((3 * k + i) % 26)]

\* a frame as the peer builds it; a client peer masks it
PeerFrame(opcode, isFin, payload, masked) ==
    [isFin |-> isFin, isRsv1 |-> FALSE, isRsv2 |-> FALSE, isRsv3 |-> FALSE,
     opcode |-> opcode, isMasked |-> masked, payloadLength |-> Len(payload),
     maskingKey |-> IF masked THEN PeerKey ELSE <<>>, payload |-> payload]

\* the bytes of a frame on the wire (RFC 6455, section 5.2)
Serialize(f) ==
    header(f) \o (IF f.isMasked THEN MaskBytes(f.payload, f.maskingKey, Len(f.payload))
                  ELSE f.payload)

RECURSIVE StreamOf(_)
\* the byte stream of a sequence of frames
StreamOf(frames) ==
    IF Len(frames) = 0 THEN <<>>
    ELSE Serialize(Head(frames)) \o StreamOf(Tail(frames))

\* whether the peer is in the middle of a fragmented message
PeerInMessage(frames) ==
    LET d == SelectSeq(frames, LAMBDA f : f.opcode \in {0, 1, 2})
    IN  Len(d) > 0 /\ ~d[Len(d)].isFin

\* whether the peer has sent its Close frame
PeerClosed(frames) == \E i \in 1..Len(frames) : frames[i].opcode = 8

\* the frames a conforming peer may send next: an empty Ping, Pong or Close, or the
\* next frame of a Text or Binary message with no payload or one of MaxPayload bytes
NextPeerFrames(frames, masked) ==
    LET k == Len(frames) + 1
        lens == {0, MaxPayload}
    IN  IF PeerClosed(frames) THEN {}
        ELSE {PeerFrame(op, TRUE, <<>>, masked) : op \in {8, 9, 10}}
             \cup (IF PeerInMessage(frames)
                   THEN {PeerFrame(0, fin, PeerPayload(k, n), masked) :
                            fin \in BOOLEAN, n \in lens}
                   ELSE {PeerFrame(op, fin, PeerPayload(k, n), masked) :
                            op \in {1, 2}, fin \in BOOLEAN, n \in lens})

\* reconnectState and the reconnect options of createWebSocket: enabled is
\* Boolean(autoReconnect && isClient && typeof requestFactory === 'function');
\* requestFactory is "none" (not a function), "works" or "throws"
ReconnectState(client, autoReconnect, requestFactory, reconnectAttempts, policy) ==
    [enabled |-> autoReconnect /\ client /\ requestFactory # "none",
     attempts |-> 0,
     autoReconnect |-> autoReconnect, requestFactory |-> requestFactory,
     reconnectAttempts |-> reconnectAttempts, shouldReconnect |-> policy]

\* the defaults: autoReconnect false, reconnectAttempts 0, no requestFactory
NoReconnect == ReconnectState(FALSE, FALSE, "none", 0, "default")

\* no registry was made
NoRegistry == [clients |-> {}, conns |-> <<>>, log |-> <<>>]

\* the handshake's headers are not looked at
NoUpgrade == [done |-> FALSE]


-----------------------------------------------------------------------------
(* Initial states                                                          *)

\* the endpoint once its handshake has completed: a server has passed through
\* isRoleOfServer (heartbeatInterval_ms 0 becomes 30000) and its first
\* setTimeout(heartbeat) has armed the interval timer; a client arms nothing
OpenRec(client) ==
    [isClient |-> client, readyState |-> OPEN, wasClean |-> FALSE,
     heartbeatInterval_ms |-> IF client THEN 0 ELSE 30000,
     pingStartTime |-> 0, latency_ms |-> 0,
     inChunks |-> <<>>, inChunk |-> <<>>, inOffset |-> 0,
     inFrame |-> <<>>, inFrames |-> <<>>, outBuffer |-> <<>>,
     wsEnd |-> <<>>,
     timers |-> IF client THEN <<>>
                ELSE <<Timer("check", "heartbeatTimeout", 0, Str(<<>>))>>,
     socket |-> OpenSocket,
     handshake |-> "done", events |-> <<>>, handled |-> <<>>,
     ext |-> NoExtension, reconnectState |-> NoReconnect,
     registry |-> NoRegistry, upgrade |-> NoUpgrade,
     microtasks |-> <<>>, ticks |-> <<>>, threw |-> FALSE, rnd |-> PeerKey]

Load(s) ==
    /\ isClient = s.isClient
    /\ readyState = s.readyState
    /\ wasClean = s.wasClean
    /\ heartbeatInterval_ms = s.heartbeatInterval_ms
    /\ pingStartTime = s.pingStartTime
    /\ latency_ms = s.latency_ms
    /\ inChunks = s.inChunks
    /\ inChunk = s.inChunk
    /\ inOffset = s.inOffset
    /\ inFrame = s.inFrame
    /\ inFrames = s.inFrames
    /\ outBuffer = s.outBuffer
    /\ wsEnd = s.wsEnd
    /\ timers = s.timers
    /\ socket = s.socket
    /\ handshake = s.handshake
    /\ events = s.events
    /\ handled = s.handled
    /\ ext = s.ext
    /\ reconnectState = s.reconnectState
    /\ registry = s.registry
    /\ upgrade = s.upgrade

-----------------------------------------------------------------------------
(* Handshake completion, socket 'end' and 'error', timers                  *)

\* the callback of socket.write(response) in sendHandshakeResponse.send
send(s) ==
    LET s1 == [s EXCEPT !.readyState = OPEN, !.handshake = "done"]
    IN  emit(s1, Event(s1, "open"))

\* connect's open(), reached from request.on('upgrade') with a valid response and
\* no extension header; the socket was paused just before
open(s) ==
    LET s1 == [socketPause(s) EXCEPT !.readyState = OPEN, !.handshake = "done"]
        s2 == setTimeout(emit(s1, Event(s1, "open")), "resume", "none", 0, Str(<<>>))
    IN  [s2 EXCEPT !.reconnectState.attempts = 0]

\* connect's destroy(error): the response failed validateHandshake
destroy(s) ==
    LET s1 == emit(s, Event(s, "error"))
    IN  [s1 EXCEPT !.handshake = "failed",
                   !.socket.destroyed = TRUE, !.socket.writable = FALSE]

\* connect's unsupported()
unsupported(s) ==
    LET s1 == emit(s, Event(s, "error"))
    IN  scheduleReconnect([s1 EXCEPT !.handshake = "rejected"], CloseEvt(1006, FALSE))

\* request.on('error'): the request failed before any response
requestError(s, code) ==
    LET s0 == [s EXCEPT !.socket.destroyed = TRUE, !.socket.writable = FALSE]
    IN  IF code = "ECONNRESET" THEN unsupported(s0)
        ELSE [emit(s0, Event(s0, "error")) EXCEPT !.handshake = "failed"]

\* the callback of reconnectState.timer
reconnect(s) ==
    IF s.reconnectState.requestFactory = "throws"
    THEN scheduleReconnect(emit(s, Event(s, "error")), CloseEvt(1006, FALSE))
    ELSE queueMicrotask(s, Microtask("connect", "none", 0, Str(<<>>)))

\* errorHandling(err)
errorHandling(s) == emit(s, Event(s, "error"))

\* endHandling()
endHandling(s) ==
    LET s1 == [s EXCEPT !.readyState = CLOSED]
        s2 == IF ~s1.wasClean THEN close(s1, 1006, ReasonAbnormal) ELSE s1
    IN  IF Len(s2.wsEnd) > 0
        THEN end(clearTimeout(s2, "close.timeout"), s2.wsEnd[1].code, s2.wsEnd[1].reason)
        ELSE s2

\* the callback a timer was armed with
fire(s, t) ==
    CASE t.k = "heartbeat" -> heartbeat(s)
      [] t.k = "check" -> check(s)
      [] t.k = "heartbeatTimeout" -> close(s, t.code, t.reason)
      [] t.k = "end" -> end(s, t.code, t.reason)
      [] t.k = "resume" -> socketResume(s)
      [] t.k = "reconnect" -> reconnect(s)
      [] OTHER -> s

\* the timers without the i-th
RemoveAt(seq, i) == SubSeq(seq, 1, i - 1) \o SubSeq(seq, i + 1, Len(seq))

-----------------------------------------------------------------------------
(* Spec: one endpoint from construction on, its application, its socket    *)
(* and a peer that sends whole frames.                                     *)

\* the endpoint as createWebSocket returns it: a server has written its handshake
\* response and armed setTimeout(heartbeat); a client, made with the option
\* heartbeatInterval_ms: 30000, has sent its request
NewRec(client) ==
    [OpenRec(client) EXCEPT
        !.readyState = CONNECTING,
        !.heartbeatInterval_ms = 30000,
        !.handshake = IF client THEN "requested" ELSE "sent",
        !.timers = IF client THEN <<>>
                   ELSE <<Timer("heartbeat", "heartbeatTimeout", 0, Str(<<>>))>>]

Init ==
    /\ \E client \in BOOLEAN : Load(NewRec(client))
    /\ wire = <<>>
    /\ peerFrames = <<>>
    /\ calls = <<>>
    /\ mode = "life"

\* the masking key is fixed in Spec; SpecRead draws it from Keys
LifeKeys == {<<1, 2, 3, 4>>}

\* an entry of the history: what was called or what happened, and the readyState,
\* the socket, the number of events emitted and the number of bytes written at
\* that moment
Call(op, code, data) ==
    [op |-> op, code |-> code, data |-> data, readyState |-> readyState,
     writable |-> isSocketWritable(St(PeerKey)), emitted |-> Len(events),
     written |-> Len(socket.written)]

CountCalls(ops) == Len(SelectSeq(calls, LAMBDA c : c.op \in ops))

\* the close codes and the reason the application passes
CloseCodes == {1000, 1001, 4000}

CloseReason == Str(<<111, 107>>)

\* the payloads the application sends: a string with a non-ASCII character, bytes
SendPayloads == {Str(<<233>>), Buf([i \in 1..MaxPayload |-> 256 - i])}

RECURSIVE PeerParse(_)
\* the frames the peer reads from the bytes the endpoint has written (RFC 6455,
\* section 5.2, payloads of up to 125 bytes)
PeerParse(bytes) ==
    IF Len(bytes) < 2 THEN <<>>
    ELSE LET masked == bytes[2] >= 128
             n == bytes[2] % 128
             off == IF masked THEN 6 ELSE 2
             body == SubSeq(bytes, off + 1, off + n)
         IN  IF n > 125 \/ Len(bytes) < off + n THEN <<>>
             ELSE <<[opcode |-> bytes[1] % 16, isFin |-> bytes[1] >= 128,
                     isRsv1 |-> (bytes[1] \div 64) % 2 = 1, size |-> off + n,
                     payload |-> IF masked THEN MaskBytes(body, SubSeq(bytes, 3, 6), n)
                                 ELSE body]>>
                  \o PeerParse(SubSeq(bytes, off + n + 1, Len(bytes)))

\* the frames the endpoint has written, as its peer reads them
PeerSees == PeerParse(socket.written)

\* the payload of the peer's Ping
PingPayload == <<112>>

\* the frames the peer may send: a Ping with a payload, an empty Pong, a Text
\* message, a Close of its own, or the echo of a Close it has received
LifePeerFrames ==
    IF PeerClosed(peerFrames) THEN {}
    ELSE {PeerFrame(9, TRUE, PingPayload, ~isClient), PeerFrame(10, TRUE, <<>>, ~isClient)}
         \cup {PeerFrame(1, TRUE, <<97>>, ~isClient)}
         \cup {PeerFrame(8, TRUE, writeUInt16BE(1000), ~isClient)}
         \cup {PeerFrame(8, TRUE, PeerSees[i].payload, ~isClient) :
                 i \in {j \in 1..Len(PeerSees) : PeerSees[j].opcode = 8}}

\* the server's handshake response has been flushed
HandshakeWritten ==
    /\ ~isClient /\ handshake = "sent"
    /\ \E key \in LifeKeys : Turn(send(St(key)))
    /\ UNCHANGED <<wire, peerFrames, calls, mode>>

\* the client's request is answered: 'upgrade' with a valid or an invalid response;
\* a server that has seen the client finish its side does not answer
Upgrade ==
    /\ isClient /\ handshake = "requested" /\ ~socket.destroyed /\ ~socket.finSent
    /\ \E key \in LifeKeys, valid \in BOOLEAN :
          Turn(IF valid THEN open(St(key)) ELSE destroy(St(key)))
    /\ UNCHANGED <<wire, peerFrames, calls, mode>>

\* the application calls ws.close(code, reason)
AppClose ==
    /\ CountCalls({"close", "send"}) < MaxCalls
    /\ \E key \in LifeKeys, code \in CloseCodes :
          /\ Turn(close(St(key), code, CloseReason))
          /\ calls' = Append(calls, Call("close", code, CloseReason))
    /\ UNCHANGED <<wire, peerFrames, mode>>

\* the application calls ws.send(payload)
AppSend ==
    /\ CountCalls({"close", "send"}) < MaxCalls
    /\ \E key \in LifeKeys, p \in SendPayloads :
          /\ Turn(sendData(St(key), p.v, p.str))
          /\ calls' = Append(calls, Call("send", 0, p))
    /\ UNCHANGED <<wire, peerFrames, mode>>

\* the socket emits 'data' with one whole frame of the peer
Receive ==
    /\ handshake = "done" /\ ~socket.paused /\ ~socket.destroyed /\ ~socket.peerEnded
    /\ Len(peerFrames) < MaxReceive
    /\ \E key \in LifeKeys, f \in LifePeerFrames :
          /\ Turn(incomingData(St(key), Serialize(f)))
          /\ peerFrames' = Append(peerFrames, f)
    /\ UNCHANGED <<wire, calls, mode>>

\* the socket emits 'end': the peer has finished its side.  A client's socket
\* then finishes its own side (allowHalfOpen is false); a server's socket, made by
\* http.Server, stays writable.
SocketEnd ==
    /\ (handshake = "done" \/ ~isClient)
    /\ ~socket.paused /\ ~socket.destroyed /\ ~socket.peerEnded
    /\ \E key \in LifeKeys :
          LET s == runMicrotasks(endHandling(St(key)))
          IN  Commit([s EXCEPT !.socket.peerEnded = TRUE,
                               !.socket.writable = IF s.isClient THEN FALSE ELSE @])
    /\ calls' = Append(calls, Call("end", 0, Str(<<>>)))
    /\ UNCHANGED <<wire, peerFrames, mode>>

\* the socket emits 'error' and is destroyed
SocketError ==
    /\ (handshake = "done" \/ ~isClient)
    /\ ~socket.destroyed
    /\ \E key \in LifeKeys :
          LET s == runMicrotasks(errorHandling(St(key)))
          IN  Commit([s EXCEPT !.socket.destroyed = TRUE, !.socket.writable = FALSE])
    /\ calls' = Append(calls, Call("error", 0, Str(<<>>)))
    /\ UNCHANGED <<wire, peerFrames, mode>>

TimerKinds == {"heartbeat", "check", "heartbeatTimeout", "end", "resume"}

\* a pending timer of kind k fires
TimerFiresKind(k) ==
    \E i \in 1..Len(timers), key \in LifeKeys :
        LET t == timers[i]
            s == St(key)
            pings == t.k = "check" /\ isSocketWritable(s)
        IN  /\ t.k = k
            /\ pings => CountCalls({"check"}) < MaxCalls
            /\ Turn(fire([s EXCEPT !.timers = RemoveAt(@, i)], t))
            /\ calls' = IF pings \/ t.k = "heartbeatTimeout"
                        THEN Append(calls, Call(t.k, t.code, t.reason))
                        ELSE calls
            /\ UNCHANGED <<wire, peerFrames, mode>>

TimerFires == \E k \in TimerKinds : TimerFiresKind(k)

Next ==
    \/ HandshakeWritten
    \/ Upgrade
    \/ AppClose
    \/ AppSend
    \/ Receive
    \/ SocketEnd
    \/ SocketError
    \/ TimerFires

Spec == Init /\ [][Next]_vars

\* a timer that stays armed fires: the event loop runs every timer that is due
SpecLive == Spec /\ \A k \in TimerKinds : WF_vars(TimerFiresKind(k))

-----------------------------------------------------------------------------
(* Properties of Spec                                                      *)

CloseEvents == {i \in 1..Len(events) : events[i].type = "close"}

\* the Close frames the endpoint has written
ClosesWritten == SelectSeq(PeerSees, LAMBDA f : f.opcode = 8)

\* the application's only call so far is close(code, reason) on an Open connection
\* with a writable socket, the socket has neither failed nor ended, and the only
\* Close frame the peer may have sent is the echo of that close
ClosedByApp ==
    /\ Len(calls) = 1
    /\ calls[1].op = "close" /\ calls[1].readyState = OPEN /\ calls[1].writable
    /\ \A i \in 1..Len(peerFrames) :
          peerFrames[i].opcode = 8 =>
              peerFrames[i].payload
                 = writeUInt16BE(calls[1].code) \o Utf8Encode(CloseReason.v)

\* the peer's first frame is a Close, and nothing else has happened to the endpoint
ClosedByPeer ==
    /\ Len(calls) = 0
    /\ Len(peerFrames) > 0 /\ peerFrames[1].opcode = 8

\* C2: a close on an Open connection with a responsive peer is a clean handshake
\* in both directions: the initiator sends a Close frame with its code and reason
\* and reports them with was_clean = true; the endpoint that receives a Close
\* answers with exactly one Close frame echoing the code and reports the code with
\* was_clean = true
C2_CloseHandshake ==
    /\ ClosedByApp =>
          /\ Len(ClosesWritten) >= 1
          /\ ClosesWritten[1].payload
                = writeUInt16BE(calls[1].code) \o Utf8Encode(CloseReason.v)
          /\ \A i \in CloseEvents :
                /\ events[i].code = calls[1].code
                /\ events[i].reason = toString(CloseReason)
                /\ events[i].wasClean
    /\ ClosedByPeer =>
          /\ Len(ClosesWritten) = 1
          /\ ClosesWritten[1].payload = peerFrames[1].payload
          /\ \A i \in CloseEvents :
                /\ events[i].code = readUInt16BE(peerFrames[1].payload, 0)
                /\ events[i].wasClean

\* close() has been called on an Open connection
CloseCalledOnOpen ==
    \E i \in 1..Len(calls) : calls[i].op = "close" /\ calls[i].readyState = OPEN

\* readyState is Closed and a close event has been emitted since that call
ClosedAfterClose ==
    /\ readyState = CLOSED
    /\ \E i \in 1..Len(calls) :
          /\ calls[i].op = "close" /\ calls[i].readyState = OPEN
          /\ \E j \in CloseEvents : j > calls[i].emitted

\* C3: after close() on an Open connection the endpoint emits a close event and
\* readyState becomes Closed, whatever the peer does
C3_CloseReachesClosed == CloseCalledOnOpen ~> ClosedAfterClose

\* a client has closed an Open connection, the peer has stayed silent and the
\* socket has not ended, and the watchdog has emitted the close event
C3_Witness ==
    /\ isClient
    /\ ClosedByApp /\ calls[1].code = 1000
    /\ Len(peerFrames) = 0
    /\ ClosedAfterClose

\* C4: readyState changes only from Connecting to Open, from Open to Closing, from
\* Closing to Closed, or to Closed; once Closed it never changes again
C4_Transitions ==
    [][readyState' # readyState =>
          /\ readyState # CLOSED
          /\ \/ readyState' = CLOSED
             \/ <<readyState, readyState'>> \in
                   {<<CONNECTING, OPEN>>, <<OPEN, CLOSING>>, <<CLOSING, CLOSED>>}]_vars

\* C5: readyState is Closed whenever a close event is emitted
C5_ClosedAtCloseEvent ==
    \A i \in CloseEvents : events[i].readyState = CLOSED

\* C6: the close event of a heartbeat timeout carries code 1006 and
\* was_clean = false, and the connection is Closed
C6_HeartbeatTimeout ==
    \A i \in CloseEvents :
        events[i].reason = toString(ReasonHeartbeat) =>
            /\ events[i].code = 1006
            /\ ~events[i].wasClean
            /\ readyState = CLOSED

\* the socket of an Open connection has reported an error, and no close event had
\* been emitted before
SocketFailed ==
    \E i \in 1..Len(calls) :
        /\ calls[i].op = "error" /\ calls[i].readyState = OPEN
        /\ \A j \in CloseEvents : j > calls[i].emitted

\* a close event with code 1006 and was_clean = false has been emitted, and
\* readyState is Closed
AbnormalClose ==
    /\ readyState = CLOSED
    /\ \E j \in CloseEvents : events[j].code = 1006 /\ ~events[j].wasClean

\* C7: after a socket error the endpoint emits a close event with code 1006 and
\* was_clean = false and reaches Closed
C7_SocketErrorCloses == SocketFailed ~> AbnormalClose

\* the message events of a peer that receives the bytes the endpoint has written
\* in two chunks, the first of n bytes, or in one chunk
PeerMessages(n) ==
    LET w == socket.written
        peer == OpenRec(~isClient)
        s == IF n = 0 \/ n >= Len(w)
             THEN runMicrotasks(incomingData(peer, w))
             ELSE runMicrotasks(incomingData(
                      runMicrotasks(incomingData(peer, SubSeq(w, 1, n))),
                      SubSeq(w, n + 1, Len(w))))
        m == SelectSeq(s.events, LAMBDA e : e.type = "message")
    IN  [i \in 1..Len(m) |-> [data |-> m[i].data, isBinary |-> m[i].isBinary]]

\* the application has only called send(), each time on an Open connection
OnlySends ==
    /\ Len(calls) > 0
    /\ \A i \in 1..Len(calls) :
          calls[i].op = "send" /\ calls[i].readyState = OPEN /\ calls[i].writable

SentMessages ==
    [i \in 1..Len(calls) |-> [data |-> calls[i].data.v, isBinary |-> ~calls[i].data.str]]

\* C1: the peer emits exactly one message event per payload sent on an Open
\* connection, with the payload as data and is_binary telling bytes from a string,
\* however the socket delivers the bytes to it
C1_SendDelivers ==
    OnlySends => \A n \in 0..Len(socket.written) : PeerMessages(n) = SentMessages

\* C13: the endpoint writes at most one Close frame to the socket, however many
\* times close() is called and whether or not a Close frame of the peer has been
\* handled
C13_OneCloseFrame == Len(ClosesWritten) <= 1

\* the only thing that has happened to the Open endpoint is a Ping of the peer
PingReceived ==
    /\ Len(calls) = 0
    /\ Len(peerFrames) = 1 /\ peerFrames[1].opcode = 9

\* the Pong frames the endpoint has written
PongsWritten == SelectSeq(PeerSees, LAMBDA f : f.opcode = 10)

PingEvents == SelectSeq(events, LAMBDA e : e.type = "ping")

\* the endpoint has answered the Ping with exactly one Pong carrying its payload
PongEchoesPing ==
    PingReceived =>
       /\ Len(PongsWritten) = 1
       /\ PongsWritten[1].payload = peerFrames[1].payload

\* C14: a Ping with payload p received while Open is answered with exactly one
\* Pong whose payload is p, and exactly one ping event is emitted whose data is p
C14_PingAnswered ==
    /\ PongEchoesPing
    /\ PingReceived =>
          /\ Len(PingEvents) = 1
          /\ ~PingEvents[1].isNull
          /\ PingEvents[1].data = peerFrames[1].payload

PongEvents == SelectSeq(events, LAMBDA e : e.type = "pong")

\* the timers of a kind that are pending
Pending(k) == SelectSeq(timers, LAMBDA x : x.k = k)

\* this step handles a Pong of the peer while a ping start time is recorded
PongArrives ==
    /\ pingStartTime # 0
    /\ Len(peerFrames') = Len(peerFrames) + 1
    /\ peerFrames'[Len(peerFrames')].opcode = 10

TrafficArrives ==
    /\ Len(Pending("heartbeatTimeout")) > 0
    /\ Len(peerFrames') = Len(peerFrames) + 1
    /\ peerFrames'[Len(peerFrames')].opcode \in {1, 2, 10}

\* C16: inbound traffic that arrives while the heartbeat timeout is pending, a
\* data frame as well as a Pong, cancels the timeout and schedules the next Ping
C16_TrafficCancelsTimeout ==
    [][TrafficArrives =>
          /\ Len(Pending("heartbeatTimeout")') = 0
          /\ Len(Pending("check")') = 1]_vars

\* the Ping frames the endpoint has written
PingsWritten == SelectSeq(PeerSees, LAMBDA f : f.opcode = 9)

\* an empty Ping has been written, or the connection is no longer Open, or its
\* socket can no longer be written to
PingSentOrNotOpen ==
    \/ readyState # OPEN
    \/ ~isSocketWritable(St(PeerKey))
    \/ Len(PingsWritten) > 0 /\ Len(PingsWritten[1].payload) = 0

\* C17: in both roles a connection that becomes Open with heartbeatInterval_ms > 0
\* eventually sends an empty Ping, without the application calling heartbeat(),
\* unless it stops being Open or its socket fails first
C17_HeartbeatArmed ==
    (readyState = OPEN /\ heartbeatInterval_ms > 0 /\ CountCalls({"close"}) = 0)
        ~> PingSentOrNotOpen

-----------------------------------------------------------------------------
(* SpecRead: an Open endpoint and the byte stream of a conforming peer,    *)
(* delivered by the socket in chunks of any size.                          *)

InitRead ==
    /\ \E client \in BOOLEAN : Load(OpenRec(client))
    /\ wire = <<>>
    /\ peerFrames = <<>>
    /\ calls = <<>>
    /\ mode = "read"

\* the peer sends one more frame
PeerSends ==
    /\ Len(peerFrames) < MaxFrames
    /\ \E f \in NextPeerFrames(peerFrames, ~isClient) :
          /\ peerFrames' = Append(peerFrames, f)
          /\ wire' = wire \o Serialize(f)
    /\ UNCHANGED <<isClient, readyState, wasClean, heartbeatInterval_ms, pingStartTime,
                   latency_ms, inChunks, inChunk, inOffset, inFrame, inFrames,
                   outBuffer, wsEnd, timers, socket, handshake, events, handled,
                   calls, ext, reconnectState, registry, upgrade, mode>>

\* the socket emits 'data' with the next n bytes
Deliver ==
    /\ ~socket.paused
    /\ \E n \in 1..Len(wire), key \in (IF isClient THEN Keys ELSE {PeerKey}) :
          /\ Turn(incomingData(St(key), SubSeq(wire, 1, n)))
          /\ wire' = SubSeq(wire, n + 1, Len(wire))
    /\ UNCHANGED <<peerFrames, calls, mode>>

NextRead == PeerSends \/ Deliver

SpecRead == InitRead /\ [][NextRead]_vars

\* the events of the same stream arriving as one chunk
OneChunkEvents ==
    runMicrotasks(incomingData(OpenRec(isClient), StreamOf(peerFrames))).events

\* C8: once every byte the peer sent has been delivered, the events emitted are
\* exactly those emitted when the stream arrives as one chunk, however the socket
\* split it
C8_SplitEquivalence == Len(wire) = 0 => events = OneChunkEvents


\* the message events emitted so far, as (data, isBinary) pairs
MessageEvents ==
    LET m == SelectSeq(events, LAMBDA e : e.type = "message")
    IN  [i \in 1..Len(m) |-> [data |-> m[i].data, isBinary |-> m[i].isBinary]]

\* the message a run of data frames F1..Fn stands for
MessageOf(run) ==
    LET buf == Concat([i \in 1..Len(run) |-> run[i].payload])
    IN  [data |-> IF run[1].opcode = 1 THEN Utf8Decode(buf) ELSE buf,
         isBinary |-> run[1].opcode # 1]

RECURSIVE MessagesOf(_, _)
\* the messages a sequence of received frames stands for: data frames accumulate
\* in arrival order, a run ends at its fin frame
MessagesOf(frames, run) ==
    IF Len(frames) = 0 THEN <<>>
    ELSE LET f == Head(frames)
         IN  IF f.opcode \notin {0, 1, 2} THEN MessagesOf(Tail(frames), run)
             ELSE IF f.isFin
                  THEN <<MessageOf(Append(run, f))>> \o MessagesOf(Tail(frames), <<>>)
                  ELSE MessagesOf(Tail(frames), Append(run, f))

\* C9: the message events are exactly one per terminal frame received, none for a
\* non-terminal frame, each carrying the concatenation of the payloads of its
\* frames F1..Fn in arrival order, with is_binary decided by F1's opcode
C9_Reassembly == MessageEvents = MessagesOf(handled, <<>>)

\* a Text message of two non-empty fragments has been received and delivered
C9_Witness ==
    /\ Len(handled) >= 2
    /\ handled[1].opcode = 1 /\ ~handled[1].isFin /\ Len(handled[1].payload) > 0
    /\ handled[2].opcode = 0 /\ handled[2].isFin /\ Len(handled[2].payload) > 0
    /\ Len(MessageEvents) = 1
    /\ MessageEvents[1].data = Utf8Decode(handled[1].payload \o handled[2].payload)
    /\ ~MessageEvents[1].isBinary

\* the index in events of the n-th event of a type, 0 when there is none
EventIndex(type, n) ==
    LET idx == {i \in 1..Len(events) :
                  /\ events[i].type = type
                  /\ Cardinality({j \in 1..i : events[j].type = type}) = n}
    IN  IF idx = {} THEN 0 ELSE CHOOSE i \in idx : TRUE

\* how many of the first i received frames satisfy P
CountHandled(i, P(_)) == Cardinality({j \in 1..i : P(handled[j])})

IsTerminal(f) == f.opcode \in {0, 1, 2} /\ f.isFin

\* the received frame j is a Ping or Pong between two fragments of the message
\* that the received frame k completes
Interleaved(j, k) ==
    /\ j < k
    /\ handled[j].opcode \in {9, 10}
    /\ IsTerminal(handled[k])
    /\ \E i \in 1..(j - 1) :
          /\ handled[i].opcode \in {0, 1, 2} /\ ~handled[i].isFin
          /\ \A x \in (i + 1)..(k - 1) : ~IsTerminal(handled[x])

\* C10: the ping/pong event of a control frame received between two fragments of
\* a message comes before the message event of that message
C10_ControlBeforeMessage ==
    \A j, k \in 1..Len(handled) :
        LET type == IF handled[j].opcode = 9 THEN "ping" ELSE "pong"
            c == EventIndex(type, CountHandled(j, LAMBDA f : f.opcode = handled[j].opcode))
            m == EventIndex("message", CountHandled(k, IsTerminal))
        IN  Interleaved(j, k) /\ m > 0 => c > 0 /\ c < m

-----------------------------------------------------------------------------
(* SpecIn: an Open endpoint that has negotiated permessage-deflate, a peer *)
(* that sends compressed and uncompressed messages, and zlib completing    *)
(* each inflation at any later time.                                       *)

\* the extension once negotiated, with or without context takeover
Negotiated(noContextTakeover) ==
    [NoExtension EXCEPT !.active = TRUE,
                        !.client_no_context_takeover = noContextTakeover,
                        !.server_no_context_takeover = noContextTakeover]

InitIn ==
    /\ \E client \in BOOLEAN, nct \in BOOLEAN :
          Load([OpenRec(client) EXCEPT !.ext = Negotiated(nct)])
    /\ wire = <<>>
    /\ peerFrames = <<>>
    /\ calls = <<>>
    /\ mode = "in"

\* whether the message the peer is sending is a compressed one: RSV1 is set on
\* its first frame only (RFC 7692, section 6)
PeerCompressing(frames) ==
    LET first == SelectSeq(frames, LAMBDA f : f.opcode \in {1, 2})
    IN  Len(first) > 0 /\ first[Len(first)].isRsv1

\* the data frames a peer with permessage-deflate may send next: the k-th frame
\* carries PeerPayload(k, MaxPayload), deflated when its message is compressed
InPeerFrames(frames, masked) ==
    LET k == Len(frames) + 1
        data == PeerPayload(k, MaxPayload)
    IN  IF PeerInMessage(frames)
        THEN {PeerFrame(0, fin,
                        IF PeerCompressing(frames) THEN Deflate(data) ELSE data,
                        masked) : fin \in BOOLEAN}
        ELSE {[PeerFrame(op, fin, IF rsv1 THEN Deflate(data) ELSE data, masked)
                  EXCEPT !.isRsv1 = rsv1] :
                 op \in {1, 2}, fin \in BOOLEAN, rsv1 \in BOOLEAN}

\* the socket emits 'data' with the next whole frame of the peer
InReceive ==
    /\ mode = "in"
    /\ ~socket.paused
    /\ Len(peerFrames) < MaxFrames
    /\ \E f \in InPeerFrames(peerFrames, ~isClient) :
          /\ Turn(incomingData(St(PeerKey), Serialize(f)))
          /\ peerFrames' = Append(peerFrames, f)
          /\ calls' = Append(calls, Call("receive", 0, Str(<<>>)))
    /\ UNCHANGED <<wire, mode>>

\* zlib has finished one of the inflations under way: onFlush is called
ZlibFlushed ==
    /\ \E i \in 1..Len(ext.zlib) :
          LET s == St(PeerKey)
          IN  /\ ext.zlib[i].dir = "inflate"
              /\ Turn(inflateFlush([s EXCEPT !.ext.zlib = RemoveAt(@, i)], ext.zlib[i]))
    /\ UNCHANGED <<wire, peerFrames, calls, mode>>

NextIn == InReceive \/ ZlibFlushed

SpecIn == InitIn /\ [][NextIn]_vars

\* the message a run of frames of the peer stands for
PeerMessageOf(run) ==
    LET buf == Concat([i \in 1..Len(run) |-> run[i].payload])
        raw == IF run[1].isRsv1 THEN Inflate(buf) ELSE buf
    IN  [data |-> IF run[1].opcode = 1 THEN Utf8Decode(raw) ELSE raw,
         isBinary |-> run[1].opcode # 1]

RECURSIVE PeerMessagesOf(_, _)
\* the messages the peer has completed, in the order of their terminal frames
PeerMessagesOf(frames, run) ==
    IF Len(frames) = 0 THEN <<>>
    ELSE LET f == Head(frames)
         IN  IF f.opcode \notin {0, 1, 2} THEN PeerMessagesOf(Tail(frames), run)
             ELSE IF f.isFin
                  THEN <<PeerMessageOf(Append(run, f))>> \o PeerMessagesOf(Tail(frames), <<>>)
                  ELSE PeerMessagesOf(Tail(frames), Append(run, f))

\* which of the peer's messages the i-th message event delivers, 0 when none
Delivers(i) ==
    LET sent == PeerMessagesOf(peerFrames, <<>>)
        ks == {k \in 1..Len(sent) : sent[k] = MessageEvents[i]}
    IN  IF ks = {} THEN 0 ELSE CHOOSE k \in ks : TRUE

\* C11: every message event delivers a message of the peer, and the message
\* events come in the order in which the terminal frames of their messages
\* arrived, whether the messages were compressed or not and whenever zlib
\* finishes
C11_MessageOrder ==
    mode = "in" =>
       \A j \in 1..Len(MessageEvents) :
          /\ Delivers(j) > 0
          /\ \A i \in 1..(j - 1) : Delivers(i) <= Delivers(j)

\* a compressed message and then an uncompressed one have arrived, the second
\* while the first was still being inflated, and both have been delivered in
\* that order
C11_Witness ==
    /\ mode = "in"
    /\ Len(peerFrames) >= 2
    /\ peerFrames[1].isRsv1 /\ peerFrames[1].isFin
    /\ ~peerFrames[2].isRsv1 /\ peerFrames[2].isFin
    /\ calls[2].emitted = 0
    /\ Len(MessageEvents) >= 2
    /\ Delivers(1) = 1
    /\ Delivers(Len(MessageEvents)) = 2

-----------------------------------------------------------------------------
(* SpecOut: an Open endpoint whose application sends messages, with or     *)
(* without permessage-deflate, zlib completing each deflation at any later *)
(* time, and a slow socket that is flushed at any later time.              *)

\* the number of sends in one behaviour
MaxSends == 2

\* socket.writableHighWaterMark of the slow socket: less than a frame
OutHighWaterMark == 4

SlowSocket ==
    [OpenSocket EXCEPT !.slow = TRUE, !.writableHighWaterMark = OutHighWaterMark]

InitOut ==
    /\ \E client \in BOOLEAN,
          e \in {NoExtension, Negotiated(FALSE), Negotiated(TRUE)} :
          Load([OpenRec(client) EXCEPT !.ext = e, !.socket = SlowSocket])
    /\ wire = <<>>
    /\ peerFrames = <<>>
    /\ calls = <<>>
    /\ mode = "out"

\* the payloads of the k-th send: a string or bytes, different for every k
OutPayloads(k) == {Str(<<96 + k>>), Buf(<<k, k>>)}

\* the application calls ws.send(payload)
OutSend ==
    /\ mode = "out"
    /\ Len(calls) < MaxSends
    /\ \E key \in LifeKeys, p \in OutPayloads(Len(calls) + 1) :
          /\ Turn(sendData(St(key), p.v, p.str))
          /\ calls' = Append(calls, Call("send", 0, p))
    /\ UNCHANGED <<wire, peerFrames, mode>>

\* zlib has finished one of the deflations under way: onFlush is called
ZlibDeflated ==
    /\ \E i \in 1..Len(ext.zlib), key \in LifeKeys :
          LET s == St(key)
          IN  /\ ext.zlib[i].dir = "deflate"
              /\ Turn(deflateFlush([s EXCEPT !.ext.zlib = RemoveAt(@, i)], ext.zlib[i]))
    /\ UNCHANGED <<wire, peerFrames, calls, mode>>

\* the kernel has taken the bytes the socket had buffered: the socket emits
\* 'drain' if it needed one, and the callbacks of the flushed writes run
SocketFlushed ==
    /\ socket.slow /\ socket.writableLength > 0
    /\ \E key \in LifeKeys :
          LET s == [St(key) EXCEPT !.socket.writableLength = 0,
                                   !.socket.writableNeedDrain = FALSE,
                                   !.socket.drainListeners = 0,
                                   !.socket.onWritten = 0]
              s1 == IF socket.writableNeedDrain THEN drain(s, socket.drainListeners)
                    ELSE s
          IN  Turn(onWritten(s1, socket.onWritten))
    /\ UNCHANGED <<wire, peerFrames, calls, mode>>

NextOut == OutSend \/ ZlibDeflated \/ SocketFlushed

SpecOut == InitOut /\ [][NextOut]_vars

\* the bytes of the payload of a send
SendBytes(c) == IF c.data.str THEN Utf8Encode(c.data.v) ELSE c.data.v

\* the frame f, as the peer reads it, is the message of the send c
FrameOfSend(f, c) ==
    /\ f.opcode = (IF c.data.str THEN 1 ELSE 2)
    /\ f.isFin
    /\ (IF f.isRsv1 THEN Inflate(f.payload) ELSE f.payload) = SendBytes(c)

\* the place of the first frame written for the k-th send, 0 when there is none
FirstFrameOf(k) ==
    LET is == {i \in 1..Len(PeerSees) : FrameOfSend(PeerSees[i], calls[k])}
    IN  IF is = {} THEN 0 ELSE CHOOSE i \in is : \A j \in is : i <= j

RECURSIVE SumSize(_)
\* the number of bytes a sequence of frames takes on the wire
SumSize(frames) ==
    IF Len(frames) = 0 THEN 0 ELSE Head(frames).size + SumSize(Tail(frames))

\* nothing is left to compress or to write
OutQuiet ==
    /\ Len(outBuffer) = 0 /\ Len(ext.zlib) = 0
    /\ Len(ext.deflateQueue) = 0 /\ ~ext.deflateQueue_isWorking

\* C12: the frames of the messages sent are written to the socket in the order of
\* the send() calls, and the bytes written and staged are whole frames one after
\* the other, whenever zlib finishes and whenever the socket drains; when nothing
\* is left to do every message has been written
C12_SendOrder ==
    mode = "out" =>
       /\ \A k, l \in 1..Len(calls) :
             k < l /\ FirstFrameOf(l) > 0 =>
                FirstFrameOf(k) > 0 /\ FirstFrameOf(k) < FirstFrameOf(l)
       /\ SumSize(PeerParse(socket.written \o outBuffer))
             = Len(socket.written) + Len(outBuffer)
       /\ OutQuiet => \A k \in 1..Len(calls) : FirstFrameOf(k) > 0

\* two messages have been sent with permessage-deflate, the second before a byte
\* of the first was written, the socket has taken them in several writes, and
\* their frames have been written in the order of the sends
C12_Witness ==
    /\ mode = "out" /\ ext.active
    /\ Len(calls) = 2 /\ calls[2].written = 0
    /\ OutQuiet
    /\ Len(socket.written) > 2 * OutHighWaterMark
    /\ FirstFrameOf(1) = 1
    /\ FirstFrameOf(2) > 1

-----------------------------------------------------------------------------
(* SpecRec: an endpoint made with the reconnect options, the answers its   *)
(* requests get, and the reconnect timer.  Events of a socket that connect *)
(* has replaced are not modelled.                                          *)

\* bound: the times the reconnect timer fires
MaxConnects == 1

\* the reconnect options the endpoints are made with: a client with
\* autoReconnect and a requestFactory, limited to one attempt under the default
\* shouldReconnect, or unlimited with a requestFactory that throws and a
\* shouldReconnect that always answers true; a client without autoReconnect; a
\* client without a requestFactory; a server that was given them all
RecOptions ==
    {ReconnectState(TRUE, TRUE, "works", 1, "default"),
     ReconnectState(TRUE, TRUE, "throws", 0, "always")}
    \cup {ReconnectState(TRUE, FALSE, "works", 0, "always"),
          ReconnectState(TRUE, TRUE, "none", 0, "always"),
          ReconnectState(FALSE, TRUE, "works", 0, "always")}

InitRec ==
    /\ \E client \in BOOLEAN :
         \E r \in {o \in RecOptions : o.enabled => client} :
            /\ r = ReconnectState(client, r.autoReconnect, r.requestFactory,
                                  r.reconnectAttempts, r.shouldReconnect)
            /\ Load([NewRec(client) EXCEPT !.reconnectState = r])
    /\ wire = <<>>
    /\ peerFrames = <<>>
    /\ calls = <<>>
    /\ mode = "rec"

\* the application calls ws.close(code, reason) with a normal or a private code
RecClose ==
    /\ CountCalls({"close"}) < MaxCalls
    /\ \E key \in LifeKeys, code \in {1000, 4000} :
          /\ Turn(close(St(key), code, CloseReason))
          /\ calls' = Append(calls, Call("close", code, CloseReason))
    /\ UNCHANGED <<wire, peerFrames, mode>>

\* the server answers the request with a response that is not an upgrade
Response ==
    /\ isClient /\ handshake = "requested" /\ ~socket.destroyed
    /\ \E key \in LifeKeys : Turn(unsupported(St(key)))
    /\ calls' = Append(calls, Call("response", 0, Str(<<>>)))
    /\ UNCHANGED <<wire, peerFrames, mode>>

\* the request fails: the connection is refused, or reset before any response
RequestError ==
    /\ isClient /\ handshake = "requested" /\ ~socket.destroyed
    /\ \E key \in LifeKeys, code \in {"ECONNREFUSED", "ECONNRESET"} :
          /\ Turn(requestError(St(key), code))
          /\ calls' = Append(calls, Call(code, 0, Str(<<>>)))
    /\ UNCHANGED <<wire, peerFrames, mode>>

\* the socket emits 'data' with the peer's Close frame: the server closes the
\* connection, once
PeerCloses ==
    /\ handshake = "done" /\ ~socket.paused /\ ~socket.destroyed /\ ~socket.peerEnded
    /\ ~PeerClosed(peerFrames)
    /\ \E key \in LifeKeys :
          \E f \in {PeerFrame(8, TRUE, writeUInt16BE(1000), ~isClient)} :
             /\ Turn(incomingData(St(key), Serialize(f)))
             /\ peerFrames' = Append(peerFrames, f)
    /\ UNCHANGED <<wire, calls, mode>>

\* the reconnect timer fires; a new request talks to a peer that has sent nothing
ReconnectFires ==
    /\ CountCalls({"connect"}) < MaxConnects
    /\ \E i \in 1..Len(timers), key \in LifeKeys :
          /\ timers[i].k = "reconnect"
          /\ Turn(fire([St(key) EXCEPT !.timers = RemoveAt(@, i)], timers[i]))
    /\ calls' = Append(calls, Call("connect", 0, Str(<<>>)))
    /\ peerFrames' = IF reconnectState.requestFactory = "works" THEN <<>> ELSE peerFrames
    /\ UNCHANGED <<wire, mode>>

NextRec ==
    \/ HandshakeWritten
    \/ Upgrade
    \/ RecClose
    \/ PeerCloses
    \/ SocketEnd
    \/ SocketError
    \/ TimerFires
    \/ Response
    \/ RequestError
    \/ ReconnectFires

SpecRec == InitRec /\ [][NextRec]_vars

\* a client with autoReconnect, a working requestFactory, unlimited attempts
\* and a shouldReconnect that always answers true
InitRecLive ==
    /\ Load([NewRec(TRUE) EXCEPT
                !.reconnectState = ReconnectState(TRUE, TRUE, "works", 0, "always")])
    /\ wire = <<>>
    /\ peerFrames = <<>>
    /\ calls = <<>>
    /\ mode = "rec"

NextRecLive ==
    \/ Upgrade
    \/ RecClose
    \/ PeerCloses
    \/ SocketEnd
    \/ SocketError
    \/ TimerFires
    \/ Response
    \/ RequestError
    \/ ReconnectFires

\* that client, with timers that fire when they stay armed
SpecRecLive ==
    /\ InitRecLive /\ [][NextRecLive]_vars
    /\ WF_vars(ReconnectFires) /\ \A k \in TimerKinds : WF_vars(TimerFiresKind(k))

-----------------------------------------------------------------------------
(* Properties of SpecRec                                                   *)

\* the events emitted in this step
NewEvents == SubSeq(events', Len(events) + 1, Len(events'))

\* scheduleReconnect has armed the reconnect timer in this step
ReconnectScheduled == reconnectState'.attempts > reconnectState.attempts

\* the step emitted a 'close' event for which shouldReconnect answers true, or
\* the 'error' event of a failed attempt, whose close event (1006, not clean)
\* is the one scheduleReconnect is given
ReconnectCause ==
    \E i \in 1..Len(NewEvents) :
        \/ /\ NewEvents[i].type = "close"
           /\ \/ reconnectState.shouldReconnect = "always"
              \/ ~NewEvents[i].wasClean
              \/ NewEvents[i].code # 1000
        \/ NewEvents[i].type = "error"

\* an 'open' event was emitted in this step
Opened == \E i \in 1..Len(NewEvents) : NewEvents[i].type = "open"

AlwaysReconnect ==
    /\ reconnectState.enabled
    /\ reconnectState.requestFactory = "works"
    /\ reconnectState.shouldReconnect = "always"
    /\ reconnectState.reconnectAttempts = 0

\* the attempt has failed: the request was refused, reset or answered without an
\* upgrade, or the upgrade response did not pass validateHandshake
AttemptFailed == handshake \in {"failed", "rejected"}

\* the connection, once made, is lost: its socket has ended or failed
ConnectionLost == handshake = "done" /\ (socket.peerEnded \/ socket.destroyed)

\* C19: with autoReconnect, a requestFactory, shouldReconnect always true and
\* unlimited attempts, after every loss of the connection and every failed
\* attempt a further request is eventually sent
C19_FurtherAttempt ==
    (/\ AlwaysReconnect
     /\ AttemptFailed \/ ConnectionLost
     /\ CountCalls({"connect"}) < MaxConnects) ~> (handshake = "requested")

\* the application has called ws.close() in this step
AppClosed == Len(calls') = Len(calls) + 1 /\ calls'[Len(calls')].op = "close"

\* C20: when the application closes a connection whose reconnect timer is
\* pending, the timer is cancelled
C20_CloseCancelsReconnect ==
    [][AppClosed /\ Len(Pending("reconnect")) > 0
          => Len(Pending("reconnect")') = 0]_vars

-----------------------------------------------------------------------------
(* createRegistry: a set of connections with broadcast and auto-clean.     *)
(* SpecReg: one registry, the connections the application has, and what    *)
(* happens to them.  A connection is kept as what the registry touches:    *)
(* its readyState, its listeners and its send.                             *)

\* bound: the connections of the application
MaxConns == 2

\* bound: the calls and events that are logged
MaxOps == 4

Conns == 1..MaxConns

\* a connection as createWebSocket returns it: no onCleanup listener yet;
\* sendCalls counts the calls of ws.send, written the frames that were staged
NewConn ==
    [readyState |-> CONNECTING, writable |-> TRUE, listening |-> FALSE,
     sendCalls |-> 0, written |-> 0]

\* an entry of the log: a call with what it returned, or an event of a connection
RegOp(op, conn, retConn, retBool) ==
    [op |-> op, conn |-> conn, retConn |-> retConn, retBool |-> retBool]

\* onCleanup(): clients.delete(ws)
onCleanup(r, ws) == [r EXCEPT !.clients = @ \ {ws}]

\* registry.add(ws) that does not subscribe to 'close' and 'error'
add_NoCleanup(r, ws) ==
    [r EXCEPT !.clients = @ \cup {ws},
              !.log = Append(@, RegOp("add", ws, ws, FALSE))]

\* registry.add(ws); further listeners of the same connection do what the first does
add(r, ws) ==
    [r EXCEPT !.clients = @ \cup {ws},
              !.conns[ws].listening = TRUE,
              !.log = Append(@, RegOp("add", ws, ws, FALSE))]

\* registry.delete(ws)
delete(r, ws) ==
    [r EXCEPT !.clients = @ \ {ws},
              !.log = Append(@, RegOp("delete", ws, 0, ws \in r.clients))]

\* registry.size()
size(r) == Cardinality(r.clients)

\* ws.send(data) of a member: sendData calls sendFrames, which rejects when the
\* socket is not writable, and catches the rejection
connSend(c) ==
    IF c.writable
    THEN [c EXCEPT !.sendCalls = @ + 1, !.written = @ + 1]
    ELSE [c EXCEPT !.sendCalls = @ + 1]

\* registry.broadcast(data) sending to every member whatever its readyState
broadcast_AnyState(r) ==
    [r EXCEPT !.conns = [ws \in DOMAIN @ |->
                            IF ws \in r.clients THEN connSend(@[ws]) ELSE @[ws]],
              !.log = Append(@, RegOp("broadcast", 0, 0, FALSE))]

\* registry.broadcast(data)
broadcast(r) ==
    [r EXCEPT !.conns = [ws \in DOMAIN @ |->
                            IF ws \in r.clients /\ @[ws].readyState = OPEN
                            THEN connSend(@[ws]) ELSE @[ws]],
              !.log = Append(@, RegOp("broadcast", 0, 0, FALSE))]

\* ws.emit(type) for 'close' or 'error': the listeners add() has subscribed run
emitTo(r, ws, type) ==
    LET r1 == [r EXCEPT !.log = Append(@, RegOp(type, ws, 0, FALSE))]
    IN  IF r.conns[ws].listening THEN onCleanup(r1, ws) ELSE r1

InitReg ==
    /\ Load([OpenRec(FALSE) EXCEPT
                !.registry = [clients |-> {}, conns |-> [ws \in Conns |-> NewConn],
                              log |-> <<>>]])
    /\ wire = <<>>
    /\ peerFrames = <<>>
    /\ calls = <<>>
    /\ mode = "reg"

\* the variables of the single endpoint, which SpecReg leaves alone
endpointVars ==
    <<isClient, readyState, wasClean, heartbeatInterval_ms, pingStartTime,
      latency_ms, inChunks, inChunk, inOffset, inFrame, inFrames, outBuffer,
      wsEnd, timers, socket, handshake, events, wire, peerFrames, handled,
      calls, ext, reconnectState, upgrade, mode>>

\* the application calls registry.add(ws)
RegAdd ==
    /\ Len(registry.log) < MaxOps
    /\ \E ws \in Conns : registry' = add(registry, ws)
    /\ UNCHANGED endpointVars

\* the application calls registry.delete(ws)
RegDelete ==
    /\ Len(registry.log) < MaxOps
    /\ \E ws \in Conns : registry' = delete(registry, ws)
    /\ UNCHANGED endpointVars

\* the application calls registry.broadcast(data)
RegBroadcast ==
    /\ Len(registry.log) < MaxOps
    /\ registry' = broadcast(registry)
    /\ UNCHANGED endpointVars

\* a connection completes its handshake, or starts or finishes closing
ConnAdvances ==
    /\ \E ws \in Conns :
          /\ registry.conns[ws].readyState \in {CONNECTING, OPEN}
          /\ registry' = [registry EXCEPT !.conns[ws].readyState = @ + 1]
    /\ UNCHANGED endpointVars

\* a connection emits 'close'
ConnCloses ==
    /\ Len(registry.log) < MaxOps
    /\ \E ws \in Conns :
          registry' = emitTo([registry EXCEPT !.conns[ws].readyState = CLOSED,
                                              !.conns[ws].writable = FALSE],
                             ws, "close")
    /\ UNCHANGED endpointVars

\* a connection's socket fails: errorHandling emits 'error', readyState stays
ConnErrors ==
    /\ Len(registry.log) < MaxOps
    /\ \E ws \in Conns :
          /\ registry.conns[ws].writable
          /\ registry' = emitTo([registry EXCEPT !.conns[ws].writable = FALSE],
                                ws, "error")
    /\ UNCHANGED endpointVars

\* an Open connection receives a frame whose opcode is not in use: handling
\* emits 'error' and goes on, the connection and its socket stay as they are
ConnUnused ==
    /\ Len(registry.log) < MaxOps
    /\ \E ws \in Conns :
          /\ registry.conns[ws].readyState = OPEN /\ registry.conns[ws].writable
          /\ registry' = emitTo(registry, ws, "error")
    /\ UNCHANGED endpointVars

NextReg ==
    \/ RegAdd
    \/ RegDelete
    \/ RegBroadcast
    \/ ConnAdvances
    \/ ConnCloses
    \/ ConnErrors
    \/ ConnUnused

SpecReg == InitReg /\ [][NextReg]_vars

RECURSIVE Members(_)
\* the connections that, by the log, were added and have since neither been
\* deleted nor emitted 'close' or 'error'
Members(log) ==
    IF Len(log) = 0 THEN {}
    ELSE LET e == log[Len(log)]
             before == Members(SubSeq(log, 1, Len(log) - 1))
         IN  CASE e.op = "add" -> before \cup {e.conn}
               [] e.op \in {"delete", "close", "error"} -> before \ {e.conn}
               [] OTHER -> before

\* C21: the members are exactly the connections added and since neither
\* deleted nor closed nor failed; size() is their number; add returns the
\* connection and delete returns whether it was a member
C21_RegistryMembers ==
    /\ registry.clients = Members(registry.log)
    /\ size(registry) = Cardinality(Members(registry.log))
    /\ \A k \in 1..Len(registry.log) :
          LET e == registry.log[k]
          IN  /\ e.op = "add" => e.retConn = e.conn
              /\ e.op = "delete" =>
                    e.retBool = (e.conn \in Members(SubSeq(registry.log, 1, k - 1)))

\* a connection was added and removed by its 'close', the other is still a
\* member, and a delete of the first has returned false
C21_Witness ==
    /\ Len(registry.log) = 4
    /\ registry.log[1].op = "add"
    /\ registry.log[2] = RegOp("close", registry.log[1].conn, 0, FALSE)
    /\ registry.log[3] = RegOp("delete", registry.log[1].conn, 0, FALSE)
    /\ registry.log[4].op = "add" /\ registry.log[4].conn # registry.log[1].conn
    /\ size(registry) = 1

\* broadcast() has been called in this step
Broadcasts ==
    /\ Len(registry.log') = Len(registry.log) + 1
    /\ registry.log'[Len(registry.log')].op = "broadcast"

\* C22: broadcast calls send once on every member that is OPEN and on nothing
\* else; a send that fails on one member leaves the others served
C22_BroadcastToOpen ==
    [][Broadcasts =>
          \A ws \in Conns :
              registry.conns'[ws].sendCalls =
                  registry.conns[ws].sendCalls
                  + (IF ws \in registry.clients /\ registry.conns[ws].readyState = OPEN
                     THEN 1 ELSE 0)]_vars

\* a broadcast has reached two members that are OPEN: the send of one failed on
\* its dead socket, the other's frame was written
C22_Witness ==
    /\ Len(registry.log) > 0 /\ registry.log[Len(registry.log)].op = "broadcast"
    /\ \E a, b \in registry.clients :
          /\ registry.conns[a].readyState = OPEN /\ registry.conns[b].readyState = OPEN
          /\ registry.conns[a].sendCalls = 1 /\ registry.conns[a].written = 0
          /\ registry.conns[b].sendCalls = 1 /\ registry.conns[b].written = 1

-----------------------------------------------------------------------------
(* SpecBad: an open endpoint and a peer that may break the protocol.       *)

\* frames no conforming peer sends to an endpoint of this role: a reserved
\* opcode, or a Text, Binary, Ping or Pong frame with the mask bit of the wrong role
BadPeerFrames(client) ==
    {PeerFrame(op, TRUE, <<66>>, ~client) : op \in {3, 7, 11, 15}}
    \cup {PeerFrame(op, TRUE, <<66>>, client) : op \in {1, 2, 9, 10}}

\* whether a frame has a reserved opcode or a mask bit that does not fit the
\* role of the endpoint that receives it
IsBad(f, client) == f.opcode \in (3..7) \cup (11..15) \/ f.isMasked = client

InitBad ==
    /\ \E client \in BOOLEAN : Load(OpenRec(client))
    /\ wire = <<>>
    /\ peerFrames = <<>>
    /\ calls = <<>>
    /\ mode = "bad"

\* the socket emits 'data' with one whole frame of the peer, conforming or not
BadReceive ==
    /\ ~socket.paused /\ ~socket.destroyed /\ ~socket.peerEnded
    /\ Len(peerFrames) < MaxReceive
    /\ \E key \in LifeKeys, f \in BadPeerFrames(isClient) \cup LifePeerFrames :
          /\ Turn(incomingData(St(key), Serialize(f)))
          /\ peerFrames' = Append(peerFrames, f)
    /\ UNCHANGED <<wire, calls, mode>>

NextBad ==
    \/ BadReceive
    \/ AppClose
    \/ SocketEnd
    \/ TimerFires

SpecBad == InitBad /\ [][NextBad]_vars

\* an open endpoint receives in this step a frame that breaks the protocol
BadFrameArrives ==
    /\ readyState = OPEN
    /\ Len(peerFrames') = Len(peerFrames) + 1
    /\ IsBad(peerFrames'[Len(peerFrames')], isClient)

\* C23: a frame with a reserved opcode or with the mask bit of the wrong role
\* makes the endpoint emit 'error' and leave Open for the closing handshake
\* (Close 1002), and no 'message', 'ping' or 'pong' is emitted for it
C23_ProtocolError ==
    [][BadFrameArrives =>
          /\ \E i \in 1..Len(NewEvents) : NewEvents[i].type = "error"
          /\ \A i \in 1..Len(NewEvents) :
                NewEvents[i].type \notin {"message", "ping", "pong"}
          /\ readyState' # OPEN
          /\ \E i \in 1..Len(PeerSees') :
                /\ PeerSees'[i].opcode = 8
                /\ Len(PeerSees'[i].payload) >= 2
                /\ readUInt16BE(PeerSees'[i].payload, 0) = 1002]_vars

-----------------------------------------------------------------------------
(* SpecErr: an open endpoint with permessage-deflate whose zlib streams    *)
(* may fail: the peer sends compressed messages that inflate to more than  *)
(* maxDecompressSize or that are no DEFLATE data, and a deflation may end  *)
(* in an 'error' of its stream.                                            *)

\* bound: the option maxDecompressSize given to createPermessageDeflate
MaxDecompress == 2

InitErr ==
    /\ \E client \in BOOLEAN, nct \in BOOLEAN :
          Load([OpenRec(client) EXCEPT
                  !.ext = [Negotiated(nct) EXCEPT !.maxDecompressSize = MaxDecompress]])
    /\ wire = <<>>
    /\ peerFrames = <<>>
    /\ calls = <<>>
    /\ mode = "err"

\* the compressed messages the peer may send in one frame: one that inflates to
\* maxDecompressSize bytes, one that inflates to one byte more, and one whose
\* payload is not the output of a deflate stream
ErrPeerFrames(frames, masked) ==
    LET k == Len(frames) + 1
    IN  {[PeerFrame(op, TRUE, Deflate(PeerPayload(k, n)), masked) EXCEPT !.isRsv1 = TRUE] :
            op \in {1, 2}, n \in {MaxDecompress, MaxDecompress + 1}}
        \cup {[PeerFrame(1, TRUE, <<1>>, masked) EXCEPT !.isRsv1 = TRUE]}

\* the socket emits 'data' with the next whole frame of the peer
ErrReceive ==
    /\ ~socket.paused /\ ~socket.destroyed /\ ~socket.peerEnded
    /\ Len(peerFrames) < MaxReceive
    /\ \E f \in ErrPeerFrames(peerFrames, ~isClient) :
          /\ Turn(incomingData(St(PeerKey), Serialize(f)))
          /\ peerFrames' = Append(peerFrames, f)
    /\ UNCHANGED <<wire, calls, mode>>

\* the deflate stream of one of the deflations under way emits 'error'
ZlibDeflateFails ==
    /\ \E i \in 1..Len(ext.zlib), key \in LifeKeys :
          LET s == St(key)
          IN  /\ ext.zlib[i].dir = "deflate"
              /\ Turn(deflateError([s EXCEPT !.ext.zlib = RemoveAt(@, i)], ext.zlib[i]))
    /\ calls' = Append(calls, Call("deflateError", 0, Str(<<>>)))
    /\ UNCHANGED <<wire, peerFrames, mode>>

\* zlib has finished one of the inflations under way: the stream has emitted
\* its 'data' or its 'error', and onFlush is called
ZlibInflated ==
    /\ \E i \in 1..Len(ext.zlib) :
          LET s == St(PeerKey)
          IN  /\ ext.zlib[i].dir = "inflate"
              /\ Turn(inflateFlush([s EXCEPT !.ext.zlib = RemoveAt(@, i)], ext.zlib[i]))
              /\ calls' = Append(calls, Call("inflated", 0, Buf(ext.zlib[i].frame.payload)))
    /\ UNCHANGED <<wire, peerFrames, mode>>

NextErr ==
    \/ ErrReceive
    \/ ZlibInflated
    \/ AppSend
    \/ ZlibDeflated
    \/ ZlibDeflateFails
    \/ TimerFires

SpecErr == InitErr /\ [][NextErr]_vars

\* zlib has finished in this step the inflation of a message for which p holds
InflationEnds(p(_)) ==
    /\ Len(calls') = Len(calls) + 1
    /\ calls'[Len(calls')].op = "inflated"
    /\ p(calls'[Len(calls')].data.v)

\* the bytes are DEFLATE data that inflate to more than maxDecompressSize
TooLarge(c) == ~InflateFails(c) /\ Len(Inflate(c)) > ext.maxDecompressSize

\* a Close frame with this code has been written by the end of the step
CloseWritten(code) ==
    \E i \in 1..Len(PeerSees') :
        /\ PeerSees'[i].opcode = 8
        /\ Len(PeerSees'[i].payload) >= 2
        /\ readUInt16BE(PeerSees'[i].payload, 0) = code

\* C24: when a compressed message inflates to more than maxDecompressSize the
\* inflation ends with an error, no 'message' is emitted for it, and the
\* connection leaves Open with a Close frame of code 1009
C24_OversizeCloses ==
    [][(readyState = OPEN /\ InflationEnds(TooLarge)) =>
          /\ \E i \in 1..Len(NewEvents) : NewEvents[i].type = "error"
          /\ \A i \in 1..Len(NewEvents) : NewEvents[i].type # "message"
          /\ readyState' # OPEN
          /\ CloseWritten(1009)]_vars

\* a hook of the extension fails in this step on an open connection: the
\* inflation of a message that is no DEFLATE data, or a deflation
HookFails ==
    /\ readyState = OPEN
    /\ \/ InflationEnds(InflateFails)
       \/ /\ Len(calls') = Len(calls) + 1
          /\ calls'[Len(calls')].op = "deflateError"

\* C25: when a hook of the extension fails on an open connection, 'error' is
\* emitted, a Close frame with code 1011 and the stringified error as its
\* reason is written, and the connection leaves Open
C25_HookFailureCloses ==
    [][HookFails =>
          /\ \E i \in 1..Len(NewEvents) : NewEvents[i].type = "error"
          /\ readyState' # OPEN
          /\ \E i \in 1..Len(PeerSees') :
                /\ PeerSees'[i].opcode = 8
                /\ PeerSees'[i].payload = writeUInt16BE(1011) \o ErrZlib.v]_vars

-----------------------------------------------------------------------------
(* Properties of SpecOut: masking                                          *)

RECURSIVE WireParse(_)
\* the frames in the bytes written, as they are on the wire: the mask bit, the
\* masking key and the payload bytes as written (RFC 6455, section 5.2, payloads
\* of up to 65535 bytes)
WireParse(bytes) ==
    IF Len(bytes) < 2 THEN <<>>
    ELSE LET masked == bytes[2] >= 128
             len7 == bytes[2] % 128
             lenBytes == IF len7 = 126 THEN 2 ELSE 0
             n == IF len7 = 126 /\ Len(bytes) >= 4 THEN readUInt16BE(bytes, 2) ELSE len7
             off == 2 + lenBytes + (IF masked THEN 4 ELSE 0)
         IN  IF len7 = 127 \/ Len(bytes) < off + n THEN <<>>
             ELSE <<[opcode |-> bytes[1] % 16,
                     isFin |-> bytes[1] >= 128,
                     isRsv1 |-> (bytes[1] \div 64) % 2 = 1,
                     masked |-> masked,
                     maskingKey |-> IF masked THEN SubSeq(bytes, off - 3, off) ELSE <<>>,
                     payload |-> SubSeq(bytes, off + 1, off + n)]>>
                  \o WireParse(SubSeq(bytes, off + n + 1, Len(bytes)))

\* the payload sendFrames had for the send c before masking: the bytes of the
\* message, deflated when the extension has compressed it
PayloadOfSend(c, isRsv1) == IF isRsv1 THEN Deflate(SendBytes(c)) ELSE SendBytes(c)

\* C26: a frame written by a client has the mask bit set and a key of 4 bytes,
\* and its payload is the payload of a send XOR-ed once with that key; a frame
\* written by a server has the mask bit clear and the payload of a send as it is
C26_Masking ==
    mode = "out" =>
       \A i \in 1..Len(WireParse(socket.written)) :
          LET f == WireParse(socket.written)[i]
          IN  /\ f.masked = isClient
              /\ \E k \in 1..Len(calls) :
                    f.payload = IF isClient
                                THEN MaskBytes(PayloadOfSend(calls[k], f.isRsv1),
                                               f.maskingKey, Len(f.payload))
                                ELSE PayloadOfSend(calls[k], f.isRsv1)

-----------------------------------------------------------------------------
(* SpecShake: the opening handshake.  A server is made by createWebSocket  *)
(* for an upgrade request, a client gets the upgrade response to its       *)
(* request.  A header that lists values is kept as the entries between its *)
(* commas, an absent header as no entries or as the empty string.          *)

\* String.prototype.toLowerCase on the values used here
toLowerCase(str) ==
    CASE str = "Chat" -> "chat"
      [] str = "Upgrade" -> "upgrade"
      [] str = "WebSocket" -> "websocket"
      [] OTHER -> str

\* String.prototype.trim on the values used here
trim(str) == IF str = " mqtt" THEN "mqtt" ELSE str

\* list.map(entry => entry.trim().toLowerCase())
Normalized(list) == [i \in 1..Len(list) |-> toLowerCase(trim(list[i]))]

\* list.includes(entry)
includes(list, entry) == \E i \in 1..Len(list) : list[i] = entry

\* offerProtocols.find(entry => supportedProtocols.includes(entry)) || ''
find(offerProtocols, supportedProtocols) ==
    LET is == {i \in 1..Len(offerProtocols) :
                  includes(supportedProtocols, offerProtocols[i])}
    IN  IF is = {} THEN ""
        ELSE offerProtocols[CHOOSE i \in is : \A j \in is : i <= j]

\* generateAccept(key): the SHA-1 of the key and the GUID, as a term
generateAccept(key) == <<"sha1", key, "258EAFA5-E914-47DA-95CA-C5AB0DC85B11">>

\* origin.indexOf(host) !== -1 for the origin 'http://a'
originHasHost(host) == host = "a"

\* isRoleOfServer(): whether the request is accepted, and the protocol it leaves
isRoleOfServer(protocol, origin, headers) ==
    IF headers.version # "13" \/ headers.key = ""
    THEN [ok |-> FALSE, protocol |-> protocol]
    ELSE LET negotiates == Len(protocol) > 0 /\ Len(headers.protocol) > 0
             selected == find(Normalized(headers.protocol), Normalized(protocol))
             proto == IF negotiates THEN <<selected>> ELSE protocol
         IN  IF negotiates /\ selected = ""
             THEN [ok |-> FALSE, protocol |-> protocol]
             ELSE IF /\ origin # "" /\ headers.origin # origin
                     /\ (headers.host = "" \/ ~originHasHost(headers.host))
             THEN [ok |-> FALSE, protocol |-> proto]
             ELSE [ok |-> TRUE, protocol |-> proto]

\* sendHandshakeResponse(): the lines of the 101 response, for a request
\* without Sec-WebSocket-Extensions
sendHandshakeResponse(protocol, headers) ==
    [status |-> 101, connection |-> "Upgrade", upgrade |-> "websocket",
     protocol |-> protocol, accept |-> generateAccept(headers.key)]

\* validateHandshake(headers): the error, or the empty string for null
validateHandshake(protocol, accept, headers) ==
    IF toLowerCase(headers.connection) # "upgrade"
    THEN "Invalid Connection header"
    ELSE IF toLowerCase(headers.upgrade) # "websocket"
    THEN "Invalid Upgrade header"
    ELSE IF headers.accept # accept
    THEN "Invalid Sec-WebSocket-Accept header"
    ELSE IF /\ Len(protocol) > 0
            /\ Len(headers.protocol) > 0
            /\ ~\E i \in 1..Len(headers.protocol) :
                   includes(Normalized(protocol), Normalized(headers.protocol)[i])
    THEN "Server sent a subprotocol but none was requested"
    ELSE ""

\* the protocol option of createWebSocket: none, a string or an array
ProtocolOptions == {<<>>, <<"chat">>, <<"Chat", " mqtt">>}

\* the Sec-WebSocket-Protocol header of a request or of a response
ProtocolHeaders == {<<>>, <<"chat">>, <<"mqtt">>, <<"x">>, <<"x", " mqtt">>}

\* the headers of an upgrade request
RequestHeaders ==
    [version : {"13", "8"}, key : {"", "k"}, protocol : ProtocolHeaders,
     origin : {"http://a", "http://b"}, host : {"", "a"}]

\* the headers of an upgrade response; extensions is absent, permessage-deflate,
\* or permessage-deflate; client_no_context_takeover; server_no_context_takeover
ResponseHeaders ==
    [connection : {"Upgrade", "keep-alive"}, upgrade : {"WebSocket", "h2c"},
     accept : {generateAccept("k"), generateAccept("j")},
     protocol : ProtocolHeaders, extensions : {"", "deflate", "deflate_nct"}]

\* a server before createWebSocket is called with the request, or a client whose
\* request, with the key 'k', has been sent
InitShake ==
    /\ \/ \E protocol \in ProtocolOptions, origin \in {"", "http://a"},
             headers \in RequestHeaders :
             Load([NewRec(FALSE) EXCEPT
                     !.handshake = "none", !.timers = <<>>,
                     !.upgrade = [done |-> FALSE, option |-> protocol,
                                  protocol |-> protocol, origin |-> origin,
                                  headers |-> headers, accepted |-> FALSE,
                                  response |-> <<>>]])
       \/ \E protocol \in ProtocolOptions, headers \in ResponseHeaders :
             Load([NewRec(TRUE) EXCEPT
                     !.upgrade = [done |-> FALSE, option |-> protocol,
                                  protocol |-> protocol, key |-> "k",
                                  headers |-> headers]])
    /\ wire = <<>>
    /\ peerFrames = <<>>
    /\ calls = <<>>
    /\ mode = "shake"

\* createWebSocket({ request, protocol, origin }) on a server: null when
\* isRoleOfServer() refuses, else the response is written and setTimeout(heartbeat)
\* armed
ServerAccepts ==
    /\ ~isClient /\ handshake = "none" /\ ~upgrade.done
    /\ LET r == isRoleOfServer(upgrade.protocol, upgrade.origin, upgrade.headers)
           s == St(PeerKey)
       IN  IF r.ok
           THEN Turn([s EXCEPT
                        !.handshake = "sent",
                        !.timers = <<Timer("heartbeat", "heartbeatTimeout", 0, Str(<<>>))>>,
                        !.upgrade = [upgrade EXCEPT
                                        !.done = TRUE, !.accepted = TRUE,
                                        !.protocol = r.protocol,
                                        !.response = <<sendHandshakeResponse(
                                                          r.protocol, upgrade.headers)>>]])
           ELSE Turn([s EXCEPT !.handshake = "refused",
                               !.upgrade = [upgrade EXCEPT !.done = TRUE]])
    /\ UNCHANGED <<wire, peerFrames, calls, mode>>

\* request.on('upgrade'): validateHandshake, then destroy(error) or, with the
\* protocol and the extension of the response, open()
ClientUpgrade ==
    /\ isClient /\ handshake = "requested" /\ ~upgrade.done
    /\ LET headers == upgrade.headers
           err == validateHandshake(upgrade.protocol, generateAccept(upgrade.key), headers)
           s == [St(PeerKey) EXCEPT
                   !.upgrade = [upgrade EXCEPT
                                   !.done = TRUE,
                                   !.protocol = IF err = "" /\ Len(headers.protocol) > 0
                                                THEN headers.protocol ELSE @],
                   !.ext = IF err = "" /\ headers.extensions # ""
                           THEN Negotiated(headers.extensions = "deflate_nct")
                           ELSE @]
       IN  Turn(IF err # "" THEN destroy(s) ELSE open(s))
    /\ UNCHANGED <<wire, peerFrames, calls, mode>>

NextShake ==
    \/ ServerAccepts
    \/ HandshakeWritten
    \/ ClientUpgrade
    \/ TimerFires

SpecShake == InitShake /\ [][NextShake]_vars

\* C27: on a server with configured protocols, the protocol of the 101 response,
\* which is the negotiated one, is a single token that the client offered and the
\* server supports, and a request that offers no supported token is refused
C27_ProtocolNegotiated ==
    (mode = "shake" /\ ~isClient /\ upgrade.done /\ Len(upgrade.option) > 0) =>
       LET offered == Normalized(upgrade.headers.protocol)
           supported == Normalized(upgrade.option)
       IN  /\ upgrade.accepted =>
                 /\ Len(upgrade.response[1].protocol) = 1
                 /\ includes(offered, upgrade.response[1].protocol[1])
                 /\ includes(supported, upgrade.response[1].protocol[1])
                 /\ upgrade.protocol = upgrade.response[1].protocol
           /\ (\A i \in 1..Len(offered) : ~includes(supported, offered[i])) =>
                 ~upgrade.accepted

\* the response is one the handshake allows: Connection is upgrade, Upgrade is
\* websocket, the accept value is the one of the key sent, and a protocol, if one
\* is returned, is among those the client offered
ValidResponse ==
    /\ toLowerCase(upgrade.headers.connection) = "upgrade"
    /\ toLowerCase(upgrade.headers.upgrade) = "websocket"
    /\ upgrade.headers.accept = generateAccept(upgrade.key)
    /\ Len(upgrade.headers.protocol) > 0 =>
          \E i \in 1..Len(upgrade.headers.protocol) :
              includes(Normalized(upgrade.option), Normalized(upgrade.headers.protocol)[i])

\* C28: a client emits 'open' only for a valid response; for any other it emits
\* 'error', destroys the request and never emits 'open'
C28_OpenOnlyIfValid ==
    (mode = "shake" /\ isClient /\ upgrade.done) =>
       /\ (\E i \in 1..Len(events) : events[i].type = "open") => ValidResponse
       /\ ~ValidResponse =>
             /\ \E i \in 1..Len(events) : events[i].type = "error"
             /\ \A i \in 1..Len(events) : events[i].type # "open"
             /\ socket.destroyed

-----------------------------------------------------------------------------
(* SpecCtl: an open endpoint whose application closes it with reasons of   *)
(* any length, and a peer that sends Pings with payloads of any length.    *)

\* bound: the longest reason passed to close() and the longest payload of a
\* Ping of the peer, in bytes
MaxReason == 126

\* reasons and payloads of n bytes
Filler(n) == [i \in 1..n |-> 97 + (i % 26)]

\* the lengths tried: nothing, what fits a control frame with and without the
\* close code, and more
CtlLengths == {0, 123, 125, MaxReason}

\* the application calls ws.close(1000, reason), the reason a string or a Buffer
CtlClose ==
    /\ CountCalls({"close"}) < MaxCalls
    /\ \E key \in LifeKeys, n \in CtlLengths, str \in BOOLEAN :
          LET reason == IF str THEN Str(Filler(n)) ELSE Buf(Filler(n))
          IN  /\ Turn(close(St(key), 1000, reason))
              /\ calls' = Append(calls, Call("close", 1000, reason))
    /\ UNCHANGED <<wire, peerFrames, mode>>

\* the socket emits 'data' with a whole Ping or Pong frame of the peer
CtlReceive ==
    /\ ~socket.paused /\ ~socket.destroyed /\ ~socket.peerEnded
    /\ Len(peerFrames) < MaxReceive
    /\ \E key \in LifeKeys, op \in {9, 10}, n \in CtlLengths :
          LET f == PeerFrame(op, TRUE, Filler(n), ~isClient)
          IN  /\ Turn(incomingData(St(key), Serialize(f)))
              /\ peerFrames' = Append(peerFrames, f)
    /\ UNCHANGED <<wire, calls, mode>>

InitCtl ==
    /\ \E client \in BOOLEAN : Load(OpenRec(client))
    /\ wire = <<>>
    /\ peerFrames = <<>>
    /\ calls = <<>>
    /\ mode = "ctl"

NextCtl ==
    \/ CtlClose
    \/ CtlReceive
    \/ TimerFires
    \/ SocketEnd

SpecCtl == InitCtl /\ [][NextCtl]_vars

\* the reasons the endpoint was closed with: those of the close calls of
\* the application and that of the heartbeat timeout, as bytes
CloseReasons ==
    {Utf8Encode(ReasonHeartbeat.v)}
    \cup {IF calls[k].data.str THEN Utf8Encode(calls[k].data.v) ELSE calls[k].data.v :
             k \in {k \in 1..Len(calls) : calls[k].op = "close"}}

\* the payload of frame f of the bytes written, unmasked
WirePayload(f) ==
    IF f.masked THEN MaskBytes(f.payload, f.maskingKey, Len(f.payload)) ELSE f.payload

\* C29: every Close, Ping and Pong frame written has FIN set and a payload of at
\* most 125 bytes; the payload of a Close frame is the code in 2 bytes and then
\* at most 123 bytes, the start of the reason
C29_ControlFrameSize ==
    mode = "ctl" =>
       \A i \in 1..Len(WireParse(socket.written)) :
          LET f == WireParse(socket.written)[i]
          IN  f.opcode \in {8, 9, 10} =>
                 /\ f.isFin
                 /\ Len(WirePayload(f)) <= 125
                 /\ f.opcode = 8 =>
                       /\ Len(WirePayload(f)) >= 2
                       /\ Len(WirePayload(f)) - 2 <= 123
                       /\ \E r \in CloseReasons :
                             SubSeq(WirePayload(f), 3, Len(WirePayload(f)))
                                = subarray(r, 0, Len(WirePayload(f)) - 2)

-----------------------------------------------------------------------------
(* Close code 1006 on the wire, under Spec                                 *)

\* the status codes of the Close frames the endpoint has written
CodesWritten ==
    {readUInt16BE(ClosesWritten[i].payload, 0) :
        i \in {i \in 1..Len(ClosesWritten) : Len(ClosesWritten[i].payload) >= 2}}

\* C30: no Close frame with the status code 1006 is written to the socket; 1006
\* is only the code of close events the endpoint emits itself
C30_AbnormalNeverSent ==
    mode = "life" => 1006 \notin CodesWritten

-----------------------------------------------------------------------------
(* SpecExt: the opening handshake of an endpoint made with or without the  *)
(* permessage-deflate extension, and the sends on the connection it opens. *)
(* A Sec-WebSocket-Extensions header is kept as its offers, the entries   *)
(* between its commas, each the list of its name and its parameters.       *)

\* the Sec-WebSocket-Extensions header of a request or of a response: absent,
\* permessage-deflate without and with parameters, or another extension only
ExtensionHeaders ==
    {<<>>,
     <<<<"permessage-deflate">>>>,
     <<<<"permessage-deflate", "client_no_context_takeover",
         "server_no_context_takeover">>>>,
     <<<<"x-webkit-deflate-frame">>>>}

\* header.split(",").map(v => v.trim()).find(v => v.startsWith("permessage-deflate"))
\* || '': the first offer of permessage-deflate, or no offer
deflateOffer(value) ==
    LET is == {i \in 1..Len(value) : value[i][1] = "permessage-deflate"}
    IN  IF is = {} THEN <<>>
        ELSE value[CHOOSE i \in is : \A j \in is : i <= j]

\* generateResponse(headers, callback) of an extension made without options: the
\* value given to the callback (no entries for callback()) and the parameters
\* the extension keeps
generateResponse(value) ==
    LET offer == deflateOffer(value)
        client == includes(offer, "client_no_context_takeover")
        server == includes(offer, "server_no_context_takeover")
    IN  IF offer = <<>>
        THEN [value |-> <<>>, client |-> FALSE, server |-> FALSE]
        ELSE [value |-> <<<<"permessage-deflate">>
                           \o (IF client THEN <<"client_no_context_takeover">> ELSE <<>>)
                           \o (IF server THEN <<"server_no_context_takeover">> ELSE <<>>)
                           \o <<"client_max_window_bits=15",
                                "server_max_window_bits=15">>>>,
              client |-> client, server |-> server]

\* activate(headers, callback): the parameters the extension keeps; the callback
\* is always given isActivate = true
activate(value) ==
    [isActivate |-> TRUE,
     client |-> includes(deflateOffer(value), "client_no_context_takeover"),
     server |-> includes(deflateOffer(value), "server_no_context_takeover")]

\* the extension object the endpoint keeps, with the parameters r
Extension(r) ==
    [NoExtension EXCEPT !.active = TRUE,
                        !.client_no_context_takeover = r.client,
                        !.server_no_context_takeover = r.server]

\* a server before createWebSocket is called with the request, or a client whose
\* request has been sent and whose response is valid but for its extensions;
\* option tells whether the extension option was given to createWebSocket
InitExt ==
    /\ \E client \in BOOLEAN, option \in BOOLEAN, value \in ExtensionHeaders :
          Load([NewRec(client) EXCEPT
                  !.handshake = IF client THEN "requested" ELSE "none",
                  !.timers = <<>>,
                  !.ext = IF option THEN [NoExtension EXCEPT !.active = TRUE]
                          ELSE NoExtension,
                  !.upgrade = [done |-> FALSE, option |-> option,
                               extensions |-> value, response |-> <<>>]])
    /\ wire = <<>>
    /\ peerFrames = <<>>
    /\ calls = <<>>
    /\ mode = "ext"

\* createWebSocket on a server, for a request that isRoleOfServer accepts:
\* sendHandshakeResponse asks the extension for the Sec-WebSocket-Extensions
\* line of the response, or drops the extension; setTimeout(heartbeat) is armed
ExtServerAccepts ==
    /\ mode = "ext" /\ ~isClient /\ handshake = "none" /\ ~upgrade.done
    /\ LET s == St(PeerKey)
           asks == upgrade.extensions # <<>> /\ s.ext.active
           r == generateResponse(upgrade.extensions)
       IN  Turn([s EXCEPT
                   !.handshake = "sent",
                   !.timers = <<Timer("heartbeat", "heartbeatTimeout", 0, Str(<<>>))>>,
                   !.ext = IF asks THEN Extension(r) ELSE NoExtension,
                   !.upgrade = [upgrade EXCEPT
                                   !.done = TRUE,
                                   !.response = IF asks THEN r.value ELSE <<>>]])
    /\ UNCHANGED <<wire, peerFrames, calls, mode>>

\* request.on('upgrade') with a response that passes validateHandshake: with a
\* Sec-WebSocket-Extensions header the extension is activated, and the request
\* destroyed when there is none; without the header the extension is dropped
ExtClientUpgrade ==
    /\ mode = "ext" /\ isClient /\ handshake = "requested" /\ ~upgrade.done
    /\ LET s == [St(PeerKey) EXCEPT !.upgrade = [upgrade EXCEPT !.done = TRUE]]
       IN  IF upgrade.extensions # <<>>
           THEN IF s.ext.active
                THEN IF activate(upgrade.extensions).isActivate
                     THEN Turn(open([s EXCEPT
                                       !.ext = Extension(activate(upgrade.extensions))]))
                     ELSE Turn(destroy(s))
                ELSE Turn(destroy(s))
           ELSE Turn(open([s EXCEPT !.ext = NoExtension]))
    /\ UNCHANGED <<wire, peerFrames, calls, mode>>

\* the application calls ws.send(payload) on the connection that has opened
ExtSend ==
    /\ mode = "ext" /\ handshake = "done"
    /\ CountCalls({"send"}) < MaxSends
    /\ \E key \in LifeKeys, p \in SendPayloads :
          /\ Turn(sendData(St(key), p.v, p.str))
          /\ calls' = Append(calls, Call("send", 0, p))
    /\ UNCHANGED <<wire, peerFrames, mode>>

NextExt ==
    \/ ExtServerAccepts
    \/ HandshakeWritten
    \/ ExtClientUpgrade
    \/ ExtSend
    \/ ZlibDeflated
    \/ TimerFires

SpecExt == InitExt /\ [][NextExt]_vars

\* the 101 response of the handshake carried a Sec-WebSocket-Extensions header
\* that accepts permessage-deflate: the one the server wrote, or the one the
\* client received
DeflateNegotiated ==
    /\ upgrade.done
    /\ deflateOffer(IF isClient THEN upgrade.extensions ELSE upgrade.response) # <<>>

\* C31: a frame is written with RSV1 set only if the handshake negotiated
\* permessage-deflate; when it did not, every frame written has RSV1 clear and
\* carries the payload of a send as it was given
C31_Rsv1OnlyNegotiated ==
    mode = "ext" =>
       \A i \in 1..Len(PeerSees) :
          /\ PeerSees[i].isRsv1 => DeflateNegotiated
          /\ (~DeflateNegotiated /\ PeerSees[i].opcode \in {1, 2}) =>
                /\ ~PeerSees[i].isRsv1
                /\ \E k \in 1..Len(calls) :
                      /\ calls[k].op = "send"
                      /\ PeerSees[i].payload = SendBytes(calls[k])

-----------------------------------------------------------------------------
(* Timers after the close event, under Spec                                *)

\* the timers of the heartbeat (heartbeat, check), of the heartbeat timeout and
\* of the close watchdog (end)
LifeTimers == {"heartbeat", "check", "heartbeatTimeout", "end"}

\* the endpoint is Closed and has emitted its close event
ClosedAndReported == readyState = CLOSED /\ CloseEvents # {}

\* C32: once the endpoint is Closed and has emitted close, no heartbeat timer, no
\* heartbeat-timeout timer and no close watchdog is armed
C32_NoTimerAfterClose ==
    (mode = "life" /\ ClosedAndReported) =>
       \A i \in 1..Len(timers) : timers[i].k \notin LifeTimers

-----------------------------------------------------------------------------
(* SpecQueue: an open endpoint with permessage-deflate that receives and   *)
(* sends several messages while zlib is at work, some of which fail.       *)

\* bound: the messages received and the messages sent
MaxQueueOps == 3

InitQueue ==
    /\ \E client \in BOOLEAN, nct \in BOOLEAN :
          Load([OpenRec(client) EXCEPT
                  !.timers = <<>>,
                  !.ext = [Negotiated(nct) EXCEPT !.maxDecompressSize = MaxDecompress]])
    /\ wire = <<>>
    /\ peerFrames = <<>>
    /\ calls = <<>>
    /\ mode = "queue"

\* the k-th message of the peer, in one frame: compressed, compressed and too
\* large when inflated, not the output of a deflate stream, or not compressed
QueuePeerFrames(k, masked) ==
    {[PeerFrame(1, TRUE, Deflate(PeerPayload(k, n)), masked) EXCEPT !.isRsv1 = TRUE] :
        n \in {1, MaxDecompress + 1}}
    \cup {[PeerFrame(1, TRUE, <<100 + k>>, masked) EXCEPT !.isRsv1 = TRUE],
          PeerFrame(1, TRUE, PeerPayload(k, 1), masked)}

\* the socket emits 'data' with the next whole message of the peer
QueueReceive ==
    /\ mode = "queue"
    /\ Len(peerFrames) < MaxQueueOps
    /\ \E f \in QueuePeerFrames(Len(peerFrames) + 1, ~isClient) :
          /\ Turn(incomingData(St(PeerKey), Serialize(f)))
          /\ peerFrames' = Append(peerFrames, f)
    /\ UNCHANGED <<wire, calls, mode>>

\* the application calls ws.send(payload), the k-th payload a string of its own
QueueSend ==
    /\ mode = "queue"
    /\ CountCalls({"send"}) < MaxQueueOps
    /\ \E key \in LifeKeys :
          LET p == Str(<<96 + CountCalls({"send"}) + 1>>)
          IN  /\ Turn(sendData(St(key), p.v, p.str))
              /\ calls' = Append(calls, Call("send", 0, p))
    /\ UNCHANGED <<wire, peerFrames, mode>>

NextQueue ==
    \/ QueueReceive
    \/ ZlibFlushed
    \/ QueueSend
    \/ ZlibDeflated
    \/ ZlibDeflateFails

SpecQueue == InitQueue /\ [][NextQueue]_vars

\* the operations of a direction that zlib is working on
InProgress(dir) == SelectSeq(ext.zlib, LAMBDA op : op.dir = dir)

\* the payloads of the operations of a direction that have not called back, the
\* one in progress first, then those waiting in the queue
PendingInflate ==
    [i \in 1..Len(InProgress("inflate")) |-> InProgress("inflate")[i].frame.payload]
    \o [i \in 1..Len(ext.inflateQueue) |-> ext.inflateQueue[i].payload]

PendingDeflate ==
    [i \in 1..Len(InProgress("deflate")) |-> InProgress("deflate")[i].frame.payload]
    \o [i \in 1..Len(ext.deflateQueue) |-> ext.deflateQueue[i].frame.payload]

\* the payloads submitted to a direction, in the order of submission
SubmittedInflate == [i \in 1..Len(peerFrames) |-> peerFrames[i].payload]

SubmittedDeflate ==
    LET sends == SelectSeq(calls, LAMBDA c : c.op = "send")
    IN  [i \in 1..Len(sends) |-> SendBytes(sends[i])]

\* seq ends with the entries of tail
EndsWith(seq, tail) ==
    /\ Len(tail) <= Len(seq)
    /\ SubSeq(seq, Len(seq) - Len(tail) + 1, Len(seq)) = tail

\* C33: in each direction zlib works on at most one operation, while it does the
\* queue is held, and the operations that have not called back are the last ones
\* submitted, in the order of their submission with the one in progress first
C33_OneAtATime ==
    mode = "queue" =>
       /\ Len(InProgress("inflate")) <= 1
       /\ Len(InProgress("deflate")) <= 1
       /\ Len(InProgress("inflate")) = 1 => ext.inflateQueue_isWorking
       /\ Len(InProgress("deflate")) = 1 => ext.deflateQueue_isWorking
       /\ Len(ext.inflateQueue) > 0 => Len(InProgress("inflate")) = 1
       /\ Len(ext.deflateQueue) > 0 => Len(InProgress("deflate")) = 1
       /\ EndsWith(SubmittedInflate, PendingInflate)
       /\ EndsWith(SubmittedDeflate, PendingDeflate)

\* in both directions a first operation has called back, a second is in progress
\* and a third waits in the queue
C33_Witness ==
    /\ mode = "queue"
    /\ Len(peerFrames) = 3 /\ Len(PendingInflate) = 2 /\ Len(InProgress("inflate")) = 1
    /\ Len(SubmittedDeflate) = 3 /\ Len(PendingDeflate) = 2
    /\ Len(InProgress("deflate")) = 1

-----------------------------------------------------------------------------
(* Writing to a socket that needs drains, under SpecOut                    *)

\* seq starts with the entries of head
StartsWith(seq, head) ==
    /\ Len(head) <= Len(seq)
    /\ SubSeq(seq, 1, Len(head)) = head

\* C34: bytes are written to a socket that needs a drain only by the step in
\* which it drains (its buffer then holds nothing but those bytes); the bytes
\* written and the bytes staged in outBuffer form one stream that only grows at
\* its end, so that every staged byte is written once and in the order it was
\* staged; and staged bytes always have a write callback or a drain listener
\* that will write them
C34_DrainWrites ==
    [][mode = "out" =>
          /\ (socket.writableNeedDrain /\ socket.written' # socket.written) =>
                socket.writableLength' = Len(socket.written') - Len(socket.written)
          /\ StartsWith(socket.written', socket.written)
          /\ StartsWith(socket.written' \o outBuffer', socket.written \o outBuffer)
          /\ Len(outBuffer') > 0 =>
                /\ socket.writableLength' > 0
                /\ socket.onWritten' > 0 \/ socket.drainListeners' > 0]_vars

\* two sends were made before a byte was written, the socket has drained at least
\* once, it needs a drain again, and bytes are still staged behind a drain listener
C34_Witness ==
    /\ mode = "out"
    /\ Len(calls) = 2 /\ calls[2].written = 0
    /\ Len(socket.written) > OutHighWaterMark
    /\ socket.writableNeedDrain
    /\ Len(outBuffer) > 0
    /\ socket.drainListeners > 0

-----------------------------------------------------------------------------
(* The number of close events, under Spec                                  *)

\* C35: an endpoint that does not reconnect emits the close event at most once,
\* whatever the order of close() calls, the peer's Close frame, the end of the
\* socket and the timers
C35_CloseOnce ==
    mode = "life" => Cardinality(CloseEvents) <= 1

-----------------------------------------------------------------------------
(* The callbacks of the message hooks, under SpecQueue                     *)

\* the callbacks invoked so far: the callback of processIncomingMessage emits
\* 'message' or 'error', that of processOutgoingMessage writes the frame of the
\* message or emits 'error'
CallbacksInvoked ==
    Cardinality({i \in 1..Len(events) : events[i].type \in {"message", "error"}})
    + Cardinality({i \in 1..Len(PeerSees) : PeerSees[i].opcode \in {1, 2}})

\* C36: every call of processIncomingMessage and of processOutgoingMessage that
\* is no longer pending has invoked its callback exactly once
C36_CallbackOnce ==
    mode = "queue" =>
       CallbacksInvoked + Len(PendingInflate) + Len(PendingDeflate)
          = Len(SubmittedInflate) + Len(SubmittedDeflate)

-----------------------------------------------------------------------------
(* SpecLate: an endpoint, from its construction on, whose application      *)
(* sends before, while and after it closes the connection, with and        *)
(* without permessage-deflate.                                             *)

InitLate ==
    /\ \E client \in BOOLEAN, e \in {NoExtension, Negotiated(FALSE)} :
          Load([NewRec(client) EXCEPT !.ext = e])
    /\ wire = <<>>
    /\ peerFrames = <<>>
    /\ calls = <<>>
    /\ mode = "late"

\* the application calls ws.send(payload), the k-th payload a string of its own
LateSend ==
    /\ mode = "late"
    /\ CountCalls({"send"}) < MaxSends
    /\ \E key \in LifeKeys :
          LET p == Str(<<96 + CountCalls({"send"}) + 1>>)
          IN  /\ Turn(sendData(St(key), p.v, p.str))
              /\ calls' = Append(calls, Call("send", 0, p))
    /\ UNCHANGED <<wire, peerFrames, mode>>

\* the application calls ws.close(1000, reason)
LateClose ==
    /\ mode = "late"
    /\ CountCalls({"close"}) < MaxCalls
    /\ \E key \in LifeKeys :
          /\ Turn(close(St(key), 1000, CloseReason))
          /\ calls' = Append(calls, Call("close", 1000, CloseReason))
    /\ UNCHANGED <<wire, peerFrames, mode>>

NextLate ==
    \/ HandshakeWritten
    \/ Upgrade
    \/ LateSend
    \/ LateClose
    \/ ZlibDeflated
    \/ SocketEnd
    \/ TimerFires

SpecLate == InitLate /\ [][NextLate]_vars

\* the frames a step writes
FramesWritten == SubSeq(PeerSees', Len(PeerSees) + 1, Len(PeerSees'))

\* C37: a data frame is written only by a step that starts with the endpoint Open
\* and with no Close frame written
C37_DataOnlyWhileOpen ==
    [][mode = "late" =>
          \A i \in 1..Len(FramesWritten) :
             FramesWritten[i].opcode \in {1, 2} =>
                readyState = OPEN /\ Len(ClosesWritten) = 0]_vars

\* ---------------------------------------------------------------------------
\* Events after the close event

\* the events a connection must not emit once it has reported its close
LiveEvents == {"message", "ping", "pong", "open"}

\* C38: no message, ping, pong or open event follows the close event
C38_NoEventAfterClose ==
    mode = "life" =>
       \A i \in CloseEvents :
          \A j \in (i + 1)..Len(events) : events[j].type \notin LiveEvents

\* ---------------------------------------------------------------------------
\* Membership of an Open connection

RECURSIVE Kept(_)
\* the connections that, by the log, were added and have not been deleted since
Kept(log) ==
    IF Len(log) = 0 THEN {}
    ELSE LET e == log[Len(log)]
             before == Kept(SubSeq(log, 1, Len(log) - 1))
         IN  CASE e.op = "add" -> before \cup {e.conn}
               [] e.op = "delete" -> before \ {e.conn}
               [] OTHER -> before

\* C39: a connection that was added and not deleted is a member for as long as
\* it is Open and its socket is alive
C39_OpenStaysMember ==
    mode = "reg" =>
       \A ws \in Kept(registry.log) :
          registry.conns[ws].readyState = OPEN /\ registry.conns[ws].writable
             => ws \in registry.clients

\* ---------------------------------------------------------------------------
\* The caller's payload buffer.  A Buffer handed to send() is an object the
\* application keeps: outFrame.payload is that same object until something
\* assigns a new one.  The history records, with every send, the bytes the
\* application's buffer holds when send() has returned.

\* the Buffers the application allocates
AppBuffers == {[i \in 1..n |-> 256 - i] : n \in 0..MaxPayload}

\* the bytes of the caller's Buffer when sendFrames has returned: the payload is
\* not copied; without the extension masking() works on it at once, with the
\* extension a message with a payload is masked only after onFlush has given
\* the frame a new buffer, and one without payload has nothing to mask
payloadAfterSend(s, payload) ==
    IF ~isSocketWritable(s) THEN payload
    ELSE IF s.ext.active THEN payload
    ELSE masking(s, [isMasked |-> s.isClient, maskingKey |-> <<>>,
                     payload |-> payload]).payload

InitBuf ==
    /\ \E client \in BOOLEAN, e \in {NoExtension, Negotiated(FALSE), Negotiated(TRUE)} :
          Load([OpenRec(client) EXCEPT !.timers = <<>>, !.ext = e])
    /\ wire = <<>>
    /\ peerFrames = <<>>
    /\ calls = <<>>
    /\ mode = "buf"

\* the buffers the application holds after its earlier sends
HeldBuffers == {calls[k].buffer : k \in 1..Len(calls)}

\* the application calls ws.send(buffer) with a new Buffer or with one it has
\* sent before
BufSend ==
    /\ mode = "buf"
    /\ CountCalls({"send"}) < MaxSends
    /\ \E key \in LifeKeys, b \in AppBuffers \cup HeldBuffers :
          /\ Turn(sendData(St(key), b, FALSE))
          /\ calls' = Append(calls, Call("send", 0, Buf(b))
                                      @@ [buffer |-> payloadAfterSend(St(key), b)])
    /\ UNCHANGED <<wire, peerFrames, mode>>

NextBuf ==
    \/ BufSend
    \/ ZlibDeflated

SpecBuf == InitBuf /\ [][NextBuf]_vars

\* C40: when send(buffer) has returned, the caller's buffer holds the bytes it
\* held when send was called
C40_PayloadUntouched ==
    mode = "buf" =>
       \A k \in 1..Len(calls) :
          calls[k].op = "send" => calls[k].buffer = calls[k].data.v

=============================================================================
